---- MODULE Spec2Model ----
(***************************************************************************)
(* Scene-graph instancing and picking core of flow-ngin.                   *)
(*                                                                         *)
(* Numbers: positions and scales are integer vectors; rotations are the    *)
(* eight unit quaternions (cos(k*45deg), 0, 0, sin(k*45deg)), k in 0..7,   *)
(* i.e. the rotations about the z axis by k*90deg.  On these operands the  *)
(* f32 arithmetic of cgmath is exact, so == is plain equality.             *)
(***************************************************************************)
EXTENDS Integers, Sequences, FiniteSets, TLC

\* ------------------------------------------------------------------ bounds
NumNodes == 4
MaxInst == 2
MaxSteps == 3
MaxCalls == 1
NumFlows == 2
MaxId == 2
MaxClicks == 2
MaxClips == 4
MaxLocals == 3
MaxHandled == 4
FuturesPerOut == 2
TickDuration == 2

\* ------------------------------------------------- Instance (instance.rs)
Vec3(x, y, z) == <<x, y, z>>

InstanceNew ==
    [position |-> Vec3(0, 0, 0), rotation |-> 0, scale |-> Vec3(1, 1, 1)]

\* Quaternion * Quaternion on the z-axis subgroup (q^8 = 1, q^4 = -1).
QuatMul(a, b) == (a + b) % 8

\* Quaternion * Vector3: rotate v by (q mod 4) quarter turns about z.
QuatRotate(q, v) ==
    CASE q % 4 = 0 -> v
      [] q % 4 = 1 -> Vec3(0 - v[2], v[1], v[3])
      [] q % 4 = 2 -> Vec3(0 - v[1], 0 - v[2], v[3])
      [] q % 4 = 3 -> Vec3(v[2], 0 - v[1], v[3])

VecAdd(a, b) == Vec3(a[1] + b[1], a[2] + b[2], a[3] + b[3])

\* parent * child
Mul(self, rhs) ==
    LET new_rotation == QuatMul(self.rotation, rhs.rotation)
        new_scale == Vec3(self.scale[1] * rhs.scale[1],
                          self.scale[2] * rhs.scale[2],
                          self.scale[3] * rhs.scale[3])
        scaled_rhs_pos == Vec3(self.scale[1] * rhs.position[1],
                               self.scale[2] * rhs.position[2],
                               self.scale[3] * rhs.position[3])
        new_position == VecAdd(self.position,
                               QuatRotate(self.rotation, scaled_rhs_pos))
    IN  [position |-> new_position,
         rotation |-> new_rotation,
         scale |-> new_scale]

MulDroppingRotation(a, b) ==
    [position |-> VecAdd(a.position,
                         QuatRotate(a.rotation,
                                    Vec3(a.scale[1] * b.position[1],
                                         a.scale[2] * b.position[2],
                                         a.scale[3] * b.position[3]))),
     rotation |-> a.rotation,
     scale |-> Vec3(a.scale[1] * b.scale[1], a.scale[2] * b.scale[2],
                    a.scale[3] * b.scale[3])]

\* self * rhs on owned operands (impl Mul<Instance> for Instance)
MulOwned(self, rhs) ==
    LET new_rotation == QuatMul(self.rotation, rhs.rotation)
        new_scale == Vec3(self.scale[1] * rhs.scale[1],
                          self.scale[2] * rhs.scale[2],
                          self.scale[3] * rhs.scale[3])
        scaled_rhs_pos == Vec3(self.scale[1] * rhs.position[1],
                               self.scale[2] * rhs.position[2],
                               self.scale[3] * rhs.position[3])
        new_position == VecAdd(self.position,
                               QuatRotate(self.rotation, scaled_rhs_pos))
    IN  [position |-> new_position,
         rotation |-> new_rotation,
         scale |-> new_scale]

\* Sample operands: a turn with a stretch, and a mirrored one.
InstA == [position |-> Vec3(1, 2, 0), rotation |-> 1, scale |-> Vec3(2, 1, 1)]
InstB == [position |-> Vec3(0, 1, 0), rotation |-> 3, scale |-> Vec3(-1, 1, 1)]

Values == {InstanceNew, InstA, InstB}

\* Matrix4::from_translation * Matrix4::from(rotation) * from_nonuniform_scale,
\* as its four columns (x axis, y axis, z axis, translation).
to_matrix(self) ==
    <<QuatRotate(self.rotation, Vec3(self.scale[1], 0, 0)),
      QuatRotate(self.rotation, Vec3(0, self.scale[2], 0)),
      QuatRotate(self.rotation, Vec3(0, 0, self.scale[3])),
      self.position>>

\* Determinant of an affine Matrix4 (last row 0 0 0 1): that of its 3x3 part.
determinant(m) ==
      m[1][1] * (m[2][2] * m[3][3] - m[3][2] * m[2][3])
    - m[2][1] * (m[1][2] * m[3][3] - m[3][2] * m[1][3])
    + m[3][1] * (m[1][2] * m[2][3] - m[2][2] * m[1][3])

signum(x) == IF x < 0 THEN -1 ELSE 1

to_raw(self) ==
    [model |-> to_matrix(self),
     normal |-> self.rotation % 4,
     handedness |-> signum(determinant(to_matrix(self)))]

\* ------------------------------------------- scene graph (scene_graph.rs)
Nodes == 1..NumNodes
Root == CHOOSE n \in Nodes : \A m \in Nodes : n <= m

VARIABLES
    kind,                      \* node -> "Container" | "Model"
    children,                  \* node -> sequence of child nodes
    instances,                 \* node -> sequence of [local, world]
    buffer_size_needs_change,  \* ModelNode dirty flag
    front_face,                \* ModelNode winding
    instance_buffer,           \* ModelNode GPU buffer: [size, data]
    gpu_call,                  \* node -> device/queue call of the last write_to_buffers
    overflow_checks,           \* build profile: arithmetic overflow panics
    panicked,                  \* the process has aborted
    last_call,                 \* the most recent call and its arguments
    returned,                  \* what that call returned, if it did
    steps,
    wasm32,                    \* build target: cfg(target_arch = "wasm32")
    renders,                   \* flow index -> what its on_render returns
    translation,               \* id -> set of flow indices, as last built
    mouse,                     \* ctx.mouse: [pressed, selection]
    spawned,                   \* futures handed to spawn_local, unresolved
    events,                    \* FlowEvents sent through the proxy, unhandled
    app_state,                 \* the application State: the closures applied to it
    ctx_configured,            \* Out::Configure closures applied to the Context
    last_pick,                 \* what the most recent handler did
    clicks,
    clips,                     \* the Vec<AnimationClip> handed to merge
    merged,                    \* what merge did with it
    gltf,                      \* the document load_model_gltf reads
    anims,                     \* load_model_gltf: node index -> Vec<AnimationClip>
    models,                    \* load_model_gltf: the scene nodes built so far
    root_node,                 \* what load_model_gltf returned
    merge_log,                 \* the clip lists merge was invoked with
    loading,                   \* load_model_gltf: where it stands
    animated,                  \* what animate_graph did on the merged animations
    parent,                    \* transform_locals / transform_local: parent
    locals,                    \* transform_locals: children
    transformed,               \* what transform_locals returned
    single,                    \* what transform_local returned, per child
    lhs,                       \* operands of `*`
    rhs,
    by_value,                  \* lhs * rhs
    by_ref,                    \* &lhs * &rhs
    constructors,              \* App.constructors: Option, taken by resumed
    self_state,                \* App.state: Option<AppState>
    graphics_flows,            \* App.graphics_flows: indices of the flows held
    init_future,               \* wasm32: the init future given to spawn_local
    hooks,                     \* <<flow, hook>> in the order they were invoked
    handled,                   \* handler invocations so far
    dropped,                   \* events that found App.state empty
    exited,                    \* event_loop.exit() was called
    aborted,                   \* a handler panicked
    call_log,                  \* per entry of hooks: handler, result, event given
    time_since_tick,           \* App.time_since_tick
    is_surface_configured,     \* AppState.is_surface_configured
    last_event                 \* the event of the last handler and its outcome

treeVars == <<kind, children, instances, buffer_size_needs_change, front_face,
              instance_buffer, gpu_call, overflow_checks, panicked, last_call,
              returned, steps>>

appVars == <<wasm32, renders, translation, mouse, spawned, events, app_state,
             ctx_configured, last_pick, clicks>>

mergeVars == <<clips, merged, gltf, anims, models, root_node, merge_log,
               loading, animated>>

mathVars == <<parent, locals, transformed, single, lhs, rhs, by_value, by_ref>>

lifeVars == <<constructors, self_state, graphics_flows, init_future, hooks,
              handled, dropped, exited, aborted, call_log, time_since_tick,
              is_surface_configured, last_event>>

vars == <<treeVars, appVars, mergeVars, mathVars, lifeVars>>

Pair(local, world) == [local |-> local, world |-> world]

\* (0..amount).map(|_| (Instance::default(), Instance::default()))
default_pairs(amount) == [i \in 1..amount |-> Pair(InstanceNew, InstanceNew)]

default_instances_short(len) ==
    [i \in 1..(IF len > 0 THEN len - 1 ELSE 0) |-> InstanceNew]

\* (0..len).map(|_| Instance::default()).collect()
default_instances(len) == [i \in 1..len |-> InstanceNew]

zip_with_default(xs) == [i \in 1..Len(xs) |-> Pair(xs[i], InstanceNew)]

\* instances.into_iter().zip(cloned)
zip_pairs(xs) == [i \in 1..Len(xs) |-> Pair(xs[i], xs[i])]

worlds(seq) == [i \in 1..Len(seq) |-> seq[i].world]

Min(a, b) == IF a < b THEN a ELSE b

\* The mutable part of a tree, threaded through the recursive calls in the
\* order the code performs them; once panicked, nothing further happens.
\* `order` lists the nodes whose instance array the call has written so far.
TreeState ==
    [instances |-> instances,
     flag |-> buffer_size_needs_change,
     panicked |-> panicked,
     order |-> <<>>]

set_dirty_forgotten(st, n) == st

\* self.buffer_size_needs_change = true (ModelNode only)
set_dirty(st, n) ==
    IF kind[n] = "Model" THEN [st EXCEPT !.flag[n] = TRUE] ELSE st

\* self.instances.len() - 1 on usize
len_minus_one_overflows(len) == len = 0

\* the trailing `self.instances.len() - 1` of add_instances / set_instances
return_last_index(st, n) ==
    IF len_minus_one_overflows(Len(st.instances[n])) /\ overflow_checks
    THEN [st EXCEPT !.panicked = TRUE]
    ELSE st

RECURSIVE add_instance(_, _, _)
RECURSIVE add_instance_children(_, _, _)
add_instance(st, n, instance) ==
    LET s1 == [st EXCEPT !.instances[n] = Append(@, Pair(instance, instance)),
                        !.order = Append(@, n)]
        s2 == add_instance_children(s1, children[n], 1)
    IN  set_dirty(s2, n)
add_instance_children(st, cs, k) ==
    IF k > Len(cs) THEN st
    ELSE add_instance_children(add_instance(st, cs[k], InstanceNew), cs, k + 1)

RECURSIVE add_instances(_, _, _)
RECURSIVE add_instances_children(_, _, _, _)
add_instances(st, n, xs) ==
    IF st.panicked THEN st
    ELSE LET s1 == [st EXCEPT !.instances[n] = @ \o zip_pairs(xs),
                                 !.order = Append(@, n)]
             s2 == add_instances_children(s1, children[n], 1, Len(xs))
         IN  IF s2.panicked THEN s2 ELSE return_last_index(set_dirty(s2, n), n)
add_instances_children(st, cs, k, len) ==
    IF k > Len(cs) \/ st.panicked THEN st
    ELSE add_instances_children(
             add_instances(st, cs[k], default_instances(len)), cs, k + 1, len)

RECURSIVE set_instances(_, _, _)
RECURSIVE set_instances_children(_, _, _, _)
set_instances(st, n, xs) ==
    IF st.panicked THEN st
    ELSE LET s1 == [st EXCEPT !.instances[n] = zip_pairs(xs),
                                 !.order = Append(@, n)]
             s2 == set_instances_children(s1, children[n], 1, Len(xs))
         IN  IF s2.panicked THEN s2 ELSE return_last_index(set_dirty(s2, n), n)
set_instances_children(st, cs, k, len) ==
    IF k > Len(cs) \/ st.panicked THEN st
    ELSE set_instances_children(
             set_instances(st, cs[k], default_instances(len)), cs, k + 1, len)

\* self.instances[i] panics when i is out of bounds
RECURSIVE clone_instance(_, _, _)
RECURSIVE clone_instance_children(_, _, _, _)
clone_instance_children_first(st, n, i) ==
    IF st.panicked THEN st
    ELSE LET s1 == clone_instance_children(st, children[n], 1, i)
         IN  IF s1.panicked THEN s1
             ELSE IF i >= Len(s1.instances[n]) THEN [s1 EXCEPT !.panicked = TRUE]
             ELSE set_dirty([s1 EXCEPT !.instances[n] = Append(@, @[i + 1]),
                                       !.order = Append(@, n)], n)

clone_instance(st, n, i) ==
    IF st.panicked THEN st
    ELSE IF i >= Len(st.instances[n]) THEN [st EXCEPT !.panicked = TRUE]
    ELSE LET s1 == [st EXCEPT !.instances[n] = Append(@, @[i + 1]),
                              !.order = Append(@, n)]
             s2 == clone_instance_children(s1, children[n], 1, i)
         IN  IF s2.panicked THEN s2 ELSE set_dirty(s2, n)
clone_instance_children(st, cs, k, i) ==
    IF k > Len(cs) \/ st.panicked THEN st
    ELSE clone_instance_children(clone_instance(st, cs[k], i), cs, k + 1, i)

vec_pop(seq, idx) == SubSeq(seq, 1, Len(seq) - 1)

\* Vec::remove(idx): shifts the tail left; panics when idx is out of bounds
vec_remove(seq, idx) ==
    [j \in 1..(Len(seq) - 1) |-> IF j <= idx THEN seq[j] ELSE seq[j + 1]]

RECURSIVE remove_instance(_, _, _)
RECURSIVE remove_instance_children(_, _, _, _)
remove_instance(st, n, idx) ==
    IF st.panicked THEN st
    ELSE LET s1 == remove_instance_children(st, children[n], 1, idx)
             s2 == set_dirty(s1, n)
         IN  IF s1.panicked THEN s1
             ELSE IF idx >= Len(s2.instances[n]) THEN [s2 EXCEPT !.panicked = TRUE]
             ELSE [s2 EXCEPT !.instances[n] = vec_remove(@, idx),
                             !.order = Append(@, n)]
remove_instance_children(st, cs, k, idx) ==
    IF k > Len(cs) \/ st.panicked THEN st
    ELSE remove_instance_children(remove_instance(st, cs[k], idx), cs, k + 1, idx)

\* Return values. A usize is written as its residue modulo the width of the
\* target nearest to zero, so that usize::MAX reads -1 on every target.
\* `self.instances.len() - 1` of add_instance, add_instances, set_instances
\* and ModelNode::clone_instance, on the state the call leaves behind
last_index(st, n) == Len(st.instances[n]) - 1

\* ContainerNode::clone_instance ends with `self.instances.len()`
clone_instance_return(st, n) ==
    IF kind[n] = "Container" THEN Len(st.instances[n]) ELSE last_index(st, n)

\* the pair that self.instances.remove(idx) hands back
remove_instance_return(st, n, idx) == st.instances[n][idx + 1]

None == <<>>
Some(x) == <<x>>

set_local_transform_or_push(st, n, idx, instance) ==
    IF idx < Len(st.instances[n])
    THEN [st EXCEPT !.instances[n][idx + 1].local = instance]
    ELSE [st EXCEPT !.instances[n] = Append(@, Pair(instance, instance))]

\* self.instances.get_mut(idx).and_then(|(local, _)| Some(*local = instance))
set_local_transform(st, n, idx, instance) ==
    IF idx < Len(st.instances[n])
    THEN [st EXCEPT !.instances[n][idx + 1].local = instance]
    ELSE st

\* self.instances.get(idx).map(|(local, _)| local)
get_local_transform(inst, n, idx) ==
    IF idx < Len(inst[n]) THEN Some(inst[n][idx + 1].local) ELSE None

\* self.instances.get(idx).map(|(_, world)| world)
get_world_transform(inst, n, idx) ==
    IF idx < Len(inst[n]) THEN Some(inst[n][idx + 1].world) ELSE None

\* ------------------------------------------------- transform propagation
parent_never_too_long(pw, seq) == FALSE

\* parents_world_transform.len() > self.instances.len()
parent_too_long(pw, seq) == Len(pw) > Len(seq)

\* self.instances.get(range) is Some(_)
range_in_bounds(seq, start, end) == start <= end /\ end <= Len(seq)

\* self.instances[range].iter_mut().zip(parents_world_transform): the zip
\* stops at the shorter of the two.
zip_len(start, end, pw) == Min(end - start, Len(pw))

world_transforms_accumulating(seq, start, end, pw) ==
    [k \in 1..zip_len(start, end, pw) |-> Mul(pw[k], seq[start + k].world)]

world_transforms_local(seq, start, end, pw) ==
    [k \in 1..zip_len(start, end, pw) |-> seq[start + k].local]

world_transforms_first_parent(seq, start, end, pw) ==
    [k \in 1..zip_len(start, end, pw) |-> Mul(pw[1], seq[start + k].local)]

\* the collected world_transforms handed to the children
world_transforms(seq, start, end, pw) ==
    [k \in 1..zip_len(start, end, pw) |-> Mul(pw[k], seq[start + k].local)]

RECURSIVE update_world_transforms(_, _, _, _, _)
RECURSIVE update_world_transforms_children(_, _, _, _, _, _)
update_world_transforms(inst, n, start, end, pw) ==
    IF parent_too_long(pw, inst[n]) THEN inst
    ELSE IF ~range_in_bounds(inst[n], start, end) THEN inst
    ELSE LET wt == world_transforms(inst[n], start, end, pw)
             i1 == [inst EXCEPT ![n] =
                      [j \in 1..Len(@) |->
                         IF j > start /\ j <= start + Len(wt)
                         THEN Pair(@[j].local, wt[j - start])
                         ELSE @[j]]]
         IN  update_world_transforms_children(i1, children[n], 1, start, end, wt)
update_world_transforms_children(inst, cs, k, start, end, wt) ==
    IF k > Len(cs) THEN inst
    ELSE update_world_transforms_children(
             update_world_transforms(inst, cs[k], start, end, wt),
             cs, k + 1, start, end, wt)

update_world_transform_all(inst, n) ==
    update_world_transforms(inst, n, 0, Len(inst[n]),
                            default_instances(Len(inst[n])))

\* ContainerNode::update_world_transforms of a node without children: the
\* instances it leaves behind
update_leaf(seq, start, end, pw) ==
    IF parent_too_long(pw, seq) \/ ~range_in_bounds(seq, start, end) THEN seq
    ELSE LET wt == world_transforms(seq, start, end, pw)
         IN  [j \in 1..Len(seq) |->
                IF j > start /\ j <= start + Len(wt)
                THEN Pair(seq[j].local, wt[j - start])
                ELSE seq[j]]

\* The free function: a scene of `len` copies of the parent with the children
\* as its only child node, one propagation over 0..len from identity
\* parents, and the child's world transforms as the result.
transform_locals(p, cs) ==
    LET len == Len(cs)
        parents == [i \in 1..len |-> p]
        scene == zip_pairs(parents)
        child == zip_pairs(cs)
        identities == default_instances(len)
        propagates == /\ ~parent_too_long(identities, scene)
                      /\ range_in_bounds(scene, 0, len)
        wt == world_transforms(scene, 0, len, identities)
    IN  worlds(IF propagates THEN update_leaf(child, 0, len, wt) ELSE child)

\* parent * &child
transform_local(p, child) == Mul(p, child)

\* ------------------------------------------------ buffer synchronisation
BufferState ==
    [flag |-> buffer_size_needs_change,
     front_face |-> front_face,
     instance_buffer |-> instance_buffer,
     gpu_call |-> [n \in Nodes |-> "none"],
     panicked |-> panicked]

\* det = world.to_matrix().determinant().signum(); det < 0.0 => Cw
winding(world) ==
    IF signum(determinant(to_matrix(world))) < 0 THEN "Cw" ELSE "Ccw"

raw_instances(seq) == [i \in 1..Len(seq) |-> to_raw(seq[i].world)]

\* device.create_buffer_init(contents)
create_buffer_init(raw) == [size |-> Len(raw), data |-> raw]

\* queue.write_buffer(buffer, 0, data): a write past the end of the buffer is
\* a validation error, which wgpu's default handler turns into a panic.
write_buffer_fits(buffer, raw) == Len(raw) <= buffer.size
write_buffer(buffer, raw) ==
    [buffer EXCEPT !.data =
        [i \in 1..buffer.size |-> IF i <= Len(raw) THEN raw[i] ELSE @[i]]]

\* if self.buffer_size_needs_change
takes_realloc_path(st, n) == st.flag[n]

write_to_buffers_keeping_cw(st, n) ==
    LET seq == instances[n]
        s1 == IF Len(seq) > 0 /\ st.front_face[n] # "Cw"
              THEN [st EXCEPT !.front_face[n] = winding(seq[1].world)]
              ELSE st
        raw == raw_instances(seq)
    IN  IF takes_realloc_path(s1, n)
        THEN [s1 EXCEPT !.instance_buffer[n] = create_buffer_init(raw),
                        !.flag[n] = FALSE,
                        !.gpu_call[n] = "create_buffer_init"]
        ELSE IF write_buffer_fits(s1.instance_buffer[n], raw)
        THEN [s1 EXCEPT !.instance_buffer[n] = write_buffer(@, raw),
                        !.gpu_call[n] = "write_buffer"]
        ELSE [s1 EXCEPT !.gpu_call[n] = "write_buffer", !.panicked = TRUE]

\* ModelNode::render_inverted; ContainerNode::render_inverted is empty
render_inverted(face, n) ==
    IF kind[n] = "Model" THEN [face EXCEPT ![n] = "Cw"] ELSE face

write_to_buffers_self(st, n) ==
    LET seq == instances[n]
        s1 == IF Len(seq) > 0
              THEN [st EXCEPT !.front_face[n] = winding(seq[1].world)]
              ELSE st
        raw == raw_instances(seq)
    IN  IF takes_realloc_path(s1, n)
        THEN [s1 EXCEPT !.instance_buffer[n] = create_buffer_init(raw),
                        !.flag[n] = FALSE,
                        !.gpu_call[n] = "create_buffer_init"]
        ELSE IF write_buffer_fits(s1.instance_buffer[n], raw)
        THEN [s1 EXCEPT !.instance_buffer[n] = write_buffer(@, raw),
                        !.gpu_call[n] = "write_buffer"]
        ELSE [s1 EXCEPT !.gpu_call[n] = "write_buffer", !.panicked = TRUE]

RECURSIVE write_to_buffers(_, _)
RECURSIVE write_to_buffers_children(_, _, _)
write_to_buffers(st, n) ==
    IF st.panicked THEN st
    ELSE LET s1 == IF kind[n] = "Model" THEN write_to_buffers_self(st, n) ELSE st
         IN  write_to_buffers_children(s1, children[n], 1)
write_to_buffers_children(st, cs, k) ==
    IF k > Len(cs) \/ st.panicked THEN st
    ELSE write_to_buffers_children(write_to_buffers(st, cs[k]), cs, k + 1)

\* ------------------------------------------- render descriptions (render.rs)
Flows == 0..(NumFlows - 1)
Ids == 0..MaxId


RenderNone == [tag |-> "None"]
Custom == [tag |-> "Custom"]
Default(id) == [tag |-> "Default", id |-> id]
Defaults(ids) == [tag |-> "Defaults", ids |-> ids]
Transparent(id) == [tag |-> "Transparent", id |-> id]
Transparents(ids) == [tag |-> "Transparents", ids |-> ids]
GUI(id) == [tag |-> "GUI", id |-> id]
Terrain(id) == [tag |-> "Terrain", id |-> id]
Composed(rs) == [tag |-> "Composed", renders |-> rs]

EmptyMap == <<>>

entry_overwrite(map, id, flow_id) ==
    [k \in DOMAIN map \cup {id} |-> IF k = id THEN {flow_id} ELSE map[k]]

\* map.entry(id).and_modify(|flows| flows.insert(flow_id)).or_insert([flow_id])
entry_insert(map, id, flow_id) ==
    [k \in DOMAIN map \cup {id} |->
        IF k # id THEN map[k]
        ELSE IF id \in DOMAIN map THEN map[id] \cup {flow_id}
        ELSE {flow_id}]

RECURSIVE for_each_instanced(_, _, _, _)
for_each_instanced(ids, k, flow_id, map) ==
    IF k > Len(ids) THEN map
    ELSE for_each_instanced(ids, k + 1, flow_id, entry_insert(map, ids[k], flow_id))

RECURSIVE map_ids(_, _, _)
RECURSIVE map_ids_composed(_, _, _, _)
map_ids(self, flow_id, map) ==
    IF self.tag \in {"Default", "Transparent", "GUI", "Terrain"}
    THEN entry_insert(map, self.id, flow_id)
    ELSE IF self.tag \in {"Defaults", "Transparents"}
    THEN for_each_instanced(self.ids, 1, flow_id, map)
    ELSE IF self.tag = "Composed"
    THEN map_ids_composed(self.renders, 1, flow_id, map)
    ELSE map

map_ids_composed(rs, k, flow_id, map) ==
    IF k > Len(rs) THEN map
    ELSE map_ids_composed(rs, k + 1, flow_id, map_ids(rs[k], flow_id, map))

\* ----------------------------------------------------- picking (pick.rs)
\* flows.iter_mut().enumerate().for_each(|(idx, flow)| render.map_ids(idx, ..))
RECURSIVE enumerate_map_ids(_, _, _)
enumerate_map_ids(rs, idx, map) ==
    IF idx >= NumFlows THEN map
    ELSE enumerate_map_ids(rs, idx + 1, map_ids(rs[idx], idx, map))

\* LoadOp::Clear(wgpu::Color::TRANSPARENT) on the R32Uint pick texture
ClearValue == 0

\* What lies under the cursor: no drawable, or a drawable of the pass with
\* its id (set_pick_pipelines draws the drawables map_ids records).
Pixels(map) == {None} \cup {Some(id) : id \in DOMAIN map}

\* The texel of the pick texture under the cursor.
texel(hit) == IF hit = None THEN ClearValue ELSE hit[1]

\* What read_texture_buffer can return.
read_texture_buffer(map) == {texel(hit) : hit \in Pixels(map)}

translation_get_or_empty(map, id) ==
    IF id \in DOMAIN map THEN Some(<<id, map[id]>>) ELSE Some(<<id, {}>>)

\* translation.get(&id).map(|flow_ids| (id, flow_ids.clone()))
translation_get(map, id) ==
    IF id \in DOMAIN map THEN Some(<<id, map[id]>>) ELSE None

\* ------------------------------------------------- event loop (flow.rs)
Outs == {"Empty", "Configure", "FutFn", "FutEvent"}

FlowEventId(pick_id, flow_ids) ==
    [tag |-> "Id", pick_id |-> pick_id, flow_ids |-> flow_ids]
\* FlowEvent::Mut(closure) and FlowEvent::Custom(event), by what they carry
FlowEventMutOf(closure) ==
    [tag |-> "Mut", pick_id |-> 0, flow_ids |-> {}, payload |-> closure]
FlowEventCustomOf(event) ==
    [tag |-> "Custom", pick_id |-> 0, flow_ids |-> {}, payload |-> event]

\* A future given to spawn_local: the read-back of a pick, or the join_all of
\* the futures of one Out, which resolve to `resolved` in list order.
FutureOf(tag, map, resolved) ==
    [tag |-> tag, translation |-> map, resolved |-> resolved]
Future(tag, map) == FutureOf(tag, map, <<0>>)

NoPick ==
    [op |-> "none", covered |-> None, read |-> None, pick |-> None, clicked |-> <<>>,
     returned |-> <<>>, handled |-> <<>>, warnings |-> <<>>]

\* The application as a handler finds it, with an empty record of its own doings.
Handler(op) ==
    [mouse |-> mouse, spawned |-> spawned, events |-> events,
     app_state |-> app_state, ctx_configured |-> ctx_configured,
     pick |-> [NoPick EXCEPT !.op = op]]

\* MouseState::toggle
toggle(self, pick_id) ==
    [self EXCEPT !.selection =
        IF self.selection = None \/ self.selection # Some(pick_id)
        THEN Some(pick_id) ELSE None]

log_warn(st, msg) == [st EXCEPT !.pick.warnings = Append(@, msg)]

send_event(st, event) == [st EXCEPT !.events = Append(@, event)]

spawn_local(st, fut) == [st EXCEPT !.spawned = Append(@, fut)]

\* GraphicsFlow::on_click of flow `flow`, returning `out`.
on_click(st, flow, pick_id, out) ==
    [st EXCEPT !.pick.clicked = Append(@, flow),
               !.pick.returned = Append(@, out)]

\* resolved.into_iter().for_each(|event| proxy.send_event(FlowEvent::Custom(event)))
send_customs(st, resolved) ==
    [st EXCEPT !.events = @ \o [i \in 1..Len(resolved) |->
                                   FlowEventCustomOf(resolved[i])]]

\* for mutation in resolved { proxy.send_event(FlowEvent::Mut(mutation)) }
send_muts(st, resolved) ==
    [st EXCEPT !.events = @ \o [i \in 1..Len(resolved) |->
                                   FlowEventMutOf(resolved[i])]]

\* resolved.into_iter().for_each(|mutation| mutation(state))
apply_mutations(st, resolved) == [st EXCEPT !.app_state = @ \o resolved]

\* handle_flow_output on an Out whose futures resolve to `resolved`
handle_flow_output(st, out, resolved) ==
    LET h == [st EXCEPT !.pick.handled = Append(@, out)]
    IN  IF out = "FutEvent"
        THEN IF wasm32 THEN spawn_local(h, FutureOf("FutEvent", EmptyMap, resolved))
             ELSE send_customs(h, resolved)
        ELSE IF out = "FutFn"
        THEN IF wasm32 THEN spawn_local(h, FutureOf("FutFn", EmptyMap, resolved))
             ELSE apply_mutations(h, resolved)
        ELSE IF out = "Configure"
        THEN [h EXCEPT !.ctx_configured = @ + 1]
        ELSE h

\* The orders in which a HashSet<usize> can be iterated.
Orders(set) ==
    {o \in [1..Cardinality(set) -> set] :
        \A a, b \in 1..Cardinality(set) : o[a] = o[b] => a = b}

\* window_event, MouseInput: the body of `if let Some((pick_id, flow_ids))`;
\* the futures of the Out of the k-th on_click resolve to futs[k].
RECURSIVE mouse_input_for_each(_, _, _, _, _, _)
mouse_input_for_each(st, order, k, pick_id, outs, futs) ==
    IF k > Len(order) THEN st
    ELSE mouse_input_for_each(
             handle_flow_output(on_click(st, order[k], pick_id, outs[order[k]]),
                        outs[order[k]], futs[k]),
             order, k + 1, pick_id, outs, futs)

mouse_input_picked(st, pick_id, flow_ids, order, outs, futs) ==
    LET toggled == [st EXCEPT !.mouse = toggle(@, pick_id),
                              !.pick.pick = Some(<<pick_id, flow_ids>>)]
        warned == IF Cardinality(flow_ids) > 1
                  THEN log_warn(toggled, "multiple_flows") ELSE toggled
    IN  mouse_input_for_each(warned, order, 1, pick_id, outs, futs)

\* Outs of one future each
one_future(order) == [k \in 1..Len(order) |-> <<0>>]

\* user_event, FlowEvent::Id((pick_id, flow_ids)).
RECURSIVE user_event_for_each(_, _, _, _, _)
user_event_for_each(st, order, k, pick_id, outs) ==
    IF k > Len(order) THEN st
    ELSE user_event_for_each(on_click(st, order[k], pick_id, outs[order[k]]),
                             order, k + 1, pick_id, outs)

user_event_id(st, pick_id, flow_ids, order, outs) ==
    LET toggled == [st EXCEPT !.mouse = toggle(@, pick_id),
                              !.pick.pick = Some(<<pick_id, flow_ids>>)]
    IN  user_event_for_each(toggled, order, 1, pick_id, outs)

AppStarted(w, rs) ==
    /\ wasm32 = w
    /\ renders = rs
    /\ translation = EmptyMap
    /\ mouse = [pressed |-> "None", selection |-> None]
    /\ spawned = <<>>
    /\ events = <<>>
    /\ app_state = <<>>
    /\ ctx_configured = 0
    /\ last_pick = NoPick
    /\ clicks = 0

\* ------------------------------------- animation merge (scene_graph.rs)
Translation(values) == [tag |-> "Translation", values |-> values]
Rotation(values) == [tag |-> "Rotation", values |-> values]
Scale(values) == [tag |-> "Scale", values |-> values]
Other == [tag |-> "Other", values |-> <<>>]

AnimationClip(name, keyframes, timestamps) ==
    [name |-> name, keyframes |-> keyframes, timestamps |-> timestamps]

ModelAnimation(name, insts, timestamps) ==
    [name |-> name, instances |-> insts, timestamps |-> timestamps]

\* ModelState { current_clip, ..Default::default() }, with the warnings logged
\* and whether the run has aborted.
ModelState(current_clip) ==
    [animations |-> <<>>, trans |-> <<>>, rots |-> <<>>, scals |-> <<>>,
     timestamps |-> <<>>, current_clip |-> current_clip,
     warnings |-> 0, panicked |-> FALSE]

reset_keeping_timestamps(state, clip) ==
    [state EXCEPT !.trans = <<>>, !.rots = <<>>, !.scals = <<>>,
                  !.current_clip = clip.name]

\* ModelState::reset
reset(state, clip) ==
    [state EXCEPT !.timestamps = <<>>, !.trans = <<>>, !.rots = <<>>,
                  !.scals = <<>>, !.current_clip = clip.name]

Max(a, b) == IF a > b THEN a ELSE b

\* vec.append(&mut (len..max_len).filter_map(|_| vec.first()).cloned().collect())
pad_with_first(vec, len, max_len) ==
    vec \o [i \in 1..(IF vec = <<>> THEN 0 ELSE max_len - len) |-> vec[1]]

\* The state with its channels padded and, unless an index was out of bounds,
\* the animation built from them pushed to state.animations.
save_current_anim(state, clip) ==
    LET t_len == Len(state.trans)
        r_len == Len(state.rots)
        s_len == Len(state.scals)
        max_len == Max(t_len, Max(r_len, s_len))
        padded ==
            IF t_len # r_len \/ r_len # s_len
            THEN [state EXCEPT !.warnings = @ + 1,
                               !.trans = pad_with_first(@, t_len, max_len),
                               !.rots = pad_with_first(@, r_len, max_len),
                               !.scals = pad_with_first(@, s_len, max_len)]
            ELSE state
        in_bounds ==
            /\ max_len <= Len(padded.trans)
            /\ max_len <= Len(padded.rots)
            /\ max_len <= Len(padded.scals)
        built ==
            [i \in 1..max_len |->
                [position |-> padded.trans[i], rotation |-> padded.rots[i],
                 scale |-> padded.scals[i]]]
    IN  IF ~in_bounds THEN [padded EXCEPT !.panicked = TRUE]
        ELSE [padded EXCEPT !.animations =
                 Append(@, ModelAnimation(clip.name, built, padded.timestamps))]

extend_replacing(vec, values) == values

\* values.into_iter().for_each(|&v| vec.push(v))
extend(vec, values) == vec \o values

\* One turn of `for clip in clips.iter()`.
merge_clip(state, clip) ==
    LET saved == IF clip.name # state.current_clip
                 THEN save_current_anim(state, clip) ELSE state
        s1 == IF clip.name # state.current_clip /\ ~saved.panicked
              THEN reset(saved, clip) ELSE saved
        s2 == IF clip.keyframes.tag = "Translation"
              THEN [s1 EXCEPT !.trans = extend(@, clip.keyframes.values)]
              ELSE IF clip.keyframes.tag = "Rotation"
              THEN [s1 EXCEPT !.rots = extend(@, clip.keyframes.values)]
              ELSE IF clip.keyframes.tag = "Scale"
              THEN [s1 EXCEPT !.scals = extend(@, clip.keyframes.values)]
              ELSE [s1 EXCEPT !.panicked = TRUE]
    IN  IF s1.panicked \/ s2.panicked THEN [s1 EXCEPT !.panicked = TRUE]
        ELSE IF Len(clip.timestamps) > Len(s2.timestamps)
        THEN [s2 EXCEPT !.timestamps = clip.timestamps]
        ELSE s2

RECURSIVE merge_loop(_, _, _)
merge_loop(state, cs, k) ==
    IF k > Len(cs) \/ state.panicked THEN state
    ELSE merge_loop(merge_clip(state, cs[k]), cs, k + 1)

Merged(status, animations, warnings) ==
    [status |-> status, animations |-> animations, warnings |-> warnings]

merge(cs) ==
    IF cs = <<>> THEN Merged("panicked", <<>>, 0)
    ELSE LET looped == merge_loop(ModelState(cs[1].name), cs, 1)
             last == IF looped.panicked THEN looped
                     ELSE save_current_anim(looped, cs[Len(cs)])
         IN  IF last.panicked THEN Merged("panicked", <<>>, last.warnings)
             ELSE Merged("returned", last.animations, last.warnings)

NotMerged == Merged("none", <<>>, 0)

AllFlows == [k \in 1..NumFlows |-> k - 1]

\* An application past its initialisation, as the other handlers find it.
LifeIdle ==
    /\ constructors = None /\ self_state = Some("AppState")
    /\ graphics_flows = AllFlows /\ init_future = "none"
    /\ hooks = <<>> /\ handled = 0 /\ dropped = 0
    /\ exited = FALSE /\ aborted = FALSE
    /\ call_log = <<>> /\ time_since_tick = 0
    /\ is_surface_configured = TRUE
    /\ last_event = [op |-> "none", event |-> "none", render |-> "none", dt |-> 0]

MathIdle ==
    /\ parent = InstanceNew /\ locals = <<>> /\ transformed = None /\ single = <<>>
    /\ lhs = InstanceNew /\ rhs = InstanceNew
    /\ by_value = None /\ by_ref = None

NoDocument == [roots |-> <<>>, children |-> <<>>, mesh |-> <<>>, channels |-> <<>>]

NotAnimated == [status |-> "none", anim_idx |-> 0, time |-> 0, index |-> 0]

LoadIdle ==
    /\ gltf = NoDocument /\ anims = <<>> /\ models = <<>> /\ root_node = <<>>
    /\ merge_log = <<>> /\ loading = "idle" /\ animated = NotAnimated

MergeIdle ==
    /\ clips = <<>>
    /\ merged = NotMerged
    /\ LoadIdle

\* ------------------------------------------------------------ tree shape
\* A complete binary tree in heap order: node n holds 2n and 2n+1.
HeapChildren(n) ==
    IF 2 * n + 1 <= NumNodes THEN <<2 * n, 2 * n + 1>>
    ELSE IF 2 * n <= NumNodes THEN <<2 * n>>
    ELSE <<>>

RECURSIVE Subtree(_)
RECURSIVE SubtreeOfAll(_, _)
Subtree(n) == {n} \cup SubtreeOfAll(children[n], 1)
SubtreeOfAll(cs, k) ==
    IF k > Len(cs) THEN {} ELSE Subtree(cs[k]) \cup SubtreeOfAll(cs, k + 1)

ModelNodes(n) == {d \in Subtree(n) : kind[d] = "Model"}

\* ContainerNode::new / ModelNode::from_model with `amount` instances each,
\* joined with add_child.
KindPatterns ==
    {[n \in Nodes |-> IF n % 2 = 1 THEN "Container" ELSE "Model"],
     [n \in Nodes |-> IF n % 2 = 1 THEN "Model" ELSE "Container"]}

NoCall == [op |-> "none", node |-> Root, start |-> 0, end |-> 0, pw |-> <<>>]
Call(op, n, a, b, pw) == [op |-> op, node |-> n, start |-> a, end |-> b, pw |-> pw]

Constructed(k, amount) ==
    /\ kind = k
    /\ children = [n \in Nodes |-> HeapChildren(n)]
    /\ instances = [n \in Nodes |-> default_pairs(amount)]
    /\ buffer_size_needs_change = [n \in Nodes |-> FALSE]
    /\ front_face = [n \in Nodes |-> "Ccw"]
    /\ instance_buffer =
          [n \in Nodes |-> create_buffer_init(raw_instances(default_pairs(amount)))]
    /\ gpu_call = [n \in Nodes |-> "none"]
    /\ panicked = FALSE
    /\ last_call = NoCall
    /\ returned = None
    /\ steps = 0

Init ==
    /\ overflow_checks \in BOOLEAN
    /\ \E k \in KindPatterns : Constructed(k, 1)
    /\ AppStarted(FALSE, [f \in Flows |-> RenderNone])
    /\ MergeIdle
    /\ MathIdle
    /\ LifeIdle

\* ---------------------------------------------------------------- actions
Running == ~panicked /\ steps < MaxSteps

Fits(n, extra) == \A d \in Subtree(n) : Len(instances[d]) + extra <= MaxInst

Commit(st, ret) ==
    /\ returned' = IF st.panicked THEN None ELSE Some(ret)
    /\ instances' = st.instances
    /\ buffer_size_needs_change' = st.flag
    /\ panicked' = st.panicked
    /\ steps' = steps + 1
    /\ UNCHANGED <<kind, children, front_face, instance_buffer, gpu_call,
                   overflow_checks>>
    /\ UNCHANGED appVars
    /\ UNCHANGED mergeVars
    /\ UNCHANGED mathVars
    /\ UNCHANGED lifeVars

AddInstance(n, x) ==
    /\ Running /\ Fits(n, 1)
    /\ LET st == add_instance(TreeState, n, x)
       IN  Commit(st, last_index(st, n))
    /\ last_call' = Call("add_instance", n, 0, 0, <<x>>)

AddInstances(n, xs) ==
    /\ Running /\ Fits(n, Len(xs))
    /\ LET st == add_instances(TreeState, n, xs)
       IN  Commit(st, last_index(st, n))
    /\ last_call' = Call("add_instances", n, 0, 0, xs)

SetInstances(n, xs) ==
    /\ Running
    /\ LET st == set_instances(TreeState, n, xs)
       IN  Commit(st, last_index(st, n))
    /\ last_call' = Call("set_instances", n, 0, 0, xs)

CloneInstance(n, i) ==
    /\ Running /\ Fits(n, 1)
    /\ LET st == clone_instance(TreeState, n, i)
       IN  Commit(st, clone_instance_return(st, n))
    /\ last_call' = Call("clone_instance", n, i, 0, <<>>)

RemoveInstance(n, idx) ==
    /\ Running
    /\ LET st == remove_instance(TreeState, n, idx)
       IN  Commit(st, IF st.panicked THEN None
                      ELSE remove_instance_return(TreeState, n, idx))
    /\ last_call' = Call("remove_instance", n, idx, 0, <<>>)

WriteToBuffers(n) ==
    /\ Running
    /\ LET st == write_to_buffers(BufferState, n)
       IN  /\ buffer_size_needs_change' = st.flag
           /\ front_face' = st.front_face
           /\ instance_buffer' = st.instance_buffer
           /\ gpu_call' = st.gpu_call
           /\ panicked' = st.panicked
    /\ steps' = steps + 1
    /\ last_call' = Call("write_to_buffers", n, 0, 0, <<>>)
    /\ returned' = None
    /\ UNCHANGED <<kind, children, instances, overflow_checks>>
    /\ UNCHANGED appVars
    /\ UNCHANGED mergeVars
    /\ UNCHANGED mathVars
    /\ UNCHANGED lifeVars

RenderInverted(n) ==
    /\ Running
    /\ front_face' = render_inverted(front_face, n)
    /\ steps' = steps + 1
    /\ last_call' = Call("render_inverted", n, 0, 0, <<>>)
    /\ returned' = None
    /\ UNCHANGED <<kind, children, instances, buffer_size_needs_change,
                   instance_buffer, gpu_call, overflow_checks, panicked>>
    /\ UNCHANGED appVars
    /\ UNCHANGED mergeVars
    /\ UNCHANGED mathVars
    /\ UNCHANGED lifeVars

AddedLists == {<<>>, <<InstA, InstB>>}
SetLists == {<<>>, <<InstB>>}
Slots == 0..(MaxInst - 1)

\* ModelNode::to_clickable: the copy shares the instance buffer, clones the
\* instances and starts with a clear flag, and so does every child's copy.
to_clickable(st, n) ==
    [st EXCEPT !.flag = [d \in Nodes |->
                           IF d \in ModelNodes(n) THEN FALSE ELSE @[d]]]

\* Instanced { instance: &self.instance_buffer, amount: self.instances.len() }
get_render(n) ==
    [instance |-> instance_buffer[n], amount |-> Len(instances[n])]

\* root.to_clickable(device, id); the copy is the tree from here on.
ToClickable ==
    /\ Running
    /\ Commit(to_clickable(TreeState, Root), 0)
    /\ last_call' = Call("to_clickable", Root, 0, 0, <<>>)

Next ==
    \/ \E n \in Nodes : AddInstance(n, InstA)
    \/ \E n \in Nodes, xs \in AddedLists : AddInstances(n, xs)
    \/ \E n \in Nodes, xs \in SetLists : SetInstances(n, xs)
    \/ \E n \in Nodes, i \in Slots : CloneInstance(n, i)
    \/ \E n \in Nodes, idx \in Slots : RemoveInstance(n, idx)
    \/ \E n \in Nodes : WriteToBuffers(n)
    \/ \E n \in Nodes : RenderInverted(n)

Spec == Init /\ [][Next]_vars

NextClickable ==
    \/ Next
    \/ ToClickable

SpecClickable == Init /\ [][NextClickable]_vars

\* ------------------------------------------- propagation on built trees
\* Trees as a caller builds them: every node from a constructor with its own
\* amount (node `short`, if any, one instance short of the others), local
\* transforms assigned, world transforms as the constructor leaves them
\* (default for ContainerNode::new / ModelNode::from_model, the local value
\* for ContainerNode::from(Vec<Instance>)).
ValueSeq == <<InstA, InstB, InstanceNew>>
LocalAt(n, i, p) == ValueSeq[((n + i + p) % 3) + 1]

BuiltPairs(n, amount, p, from_vec) ==
    [i \in 1..amount |->
        Pair(LocalAt(n, i, p),
             IF from_vec THEN LocalAt(n, i, p) ELSE InstanceNew)]

InitProp ==
    /\ overflow_checks = TRUE
    /\ kind \in KindPatterns
    /\ children = [n \in Nodes |-> HeapChildren(n)]
    /\ \E amount \in 1..MaxInst, short \in Nodes \cup {0}, p \in {0, 1},
          from_vec \in BOOLEAN :
          instances = [n \in Nodes |->
              BuiltPairs(n, IF n = short THEN amount - 1 ELSE amount, p, from_vec)]
    /\ buffer_size_needs_change = [n \in Nodes |-> FALSE]
    /\ front_face = [n \in Nodes |-> "Ccw"]
    /\ instance_buffer =
          [n \in Nodes |-> create_buffer_init(raw_instances(instances[n]))]
    /\ gpu_call = [n \in Nodes |-> "none"]
    /\ panicked = FALSE
    /\ last_call = NoCall
    /\ returned = None
    /\ steps = 0
    /\ AppStarted(FALSE, [f \in Flows |-> RenderNone])
    /\ MergeIdle
    /\ MathIdle
    /\ LifeIdle

Calling == ~panicked /\ steps < MaxCalls

UpdateWorldTransforms(n, start, end, pw) ==
    /\ Calling
    /\ instances' = update_world_transforms(instances, n, start, end, pw)
    /\ last_call' = Call("update_world_transforms", n, start, end, pw)
    /\ returned' = None
    /\ steps' = steps + 1
    /\ UNCHANGED <<kind, children, buffer_size_needs_change, front_face,
                   instance_buffer, gpu_call, overflow_checks, panicked>>
    /\ UNCHANGED appVars
    /\ UNCHANGED mergeVars
    /\ UNCHANGED mathVars
    /\ UNCHANGED lifeVars

UpdateWorldTransformAll(n) ==
    /\ Calling
    /\ instances' = update_world_transform_all(instances, n)
    /\ last_call' = Call("update_world_transform_all", n, 0, Len(instances[n]),
                         default_instances(Len(instances[n])))
    /\ returned' = None
    /\ steps' = steps + 1
    /\ UNCHANGED <<kind, children, buffer_size_needs_change, front_face,
                   instance_buffer, gpu_call, overflow_checks, panicked>>
    /\ UNCHANGED appVars
    /\ UNCHANGED mergeVars
    /\ UNCHANGED mathVars
    /\ UNCHANGED lifeVars

\* A call that touches the instance arrays at most and returns `ret`.
PropCommit(op, n, idx, inst, ret) ==
    /\ instances' = inst
    /\ last_call' = Call(op, n, idx, 0, <<>>)
    /\ returned' = ret
    /\ steps' = steps + 1
    /\ UNCHANGED <<kind, children, buffer_size_needs_change, front_face,
                   instance_buffer, gpu_call, overflow_checks, panicked>>
    /\ UNCHANGED appVars
    /\ UNCHANGED mergeVars
    /\ UNCHANGED mathVars
    /\ UNCHANGED lifeVars

SetLocalTransform(n, idx, x) ==
    /\ Calling
    /\ PropCommit("set_local_transform", n, idx,
                  set_local_transform(TreeState, n, idx, x).instances, None)

GetLocalTransform(n, idx) ==
    /\ Calling
    /\ PropCommit("get_local_transform", n, idx, instances,
                  Some(get_local_transform(instances, n, idx)))

GetWorldTransform(n, idx) ==
    /\ Calling
    /\ PropCommit("get_world_transform", n, idx, instances,
                  Some(get_world_transform(instances, n, idx)))

\* The temporary child after self.update_world_transforms(idx..idx + 1,
\* &vec![Instance::new()]) on node n: it is the last child, index idx, and is
\* reached when n passes its own checks.
propagated_child(inst, n, idx, child) ==
    IF parent_too_long(<<InstanceNew>>, inst[n])
       \/ ~range_in_bounds(inst[n], idx, idx + 1)
    THEN child
    ELSE update_leaf(child, idx, idx + 1,
                     world_transforms(inst[n], idx, idx + 1, <<InstanceNew>>))

\* <dyn SceneNode>::transform_local: the node afterwards (remove_child takes
\* the temporary child out again) and the value returned.
dyn_transform_local(st, n, instance) ==
    LET idx == Len(children[n])
        child == <<Pair(instance, InstanceNew)>>
    IN  [st |-> [st EXCEPT !.instances =
                    update_world_transforms(@, n, idx, idx + 1, <<InstanceNew>>)],
         ret |-> propagated_child(st.instances, n, idx, child)[1].world]

\* <dyn SceneNode>::transform_locals
dyn_transform_locals(st, n, xs) ==
    LET added == add_instances(st, n, default_instances(Len(xs)))
        idx == Len(children[n])
    IN  IF added.panicked THEN [st |-> added, ret |-> <<>>]
        ELSE [st |-> [added EXCEPT !.instances =
                        update_world_transforms(@, n, idx, idx + 1, <<InstanceNew>>)],
              ret |-> worlds(propagated_child(added.instances, n, idx,
                                              zip_pairs(xs)))]

DynTransformLocal(n, instance) ==
    /\ Calling
    /\ LET done == dyn_transform_local(TreeState, n, instance)
       IN  Commit(done.st, done.ret)
    /\ last_call' = Call("transform_local", n, 0, 0, <<instance>>)

DynTransformLocals(n, xs) ==
    /\ Calling
    /\ LET done == dyn_transform_locals(TreeState, n, xs)
       IN  Commit(done.st, done.ret)
    /\ last_call' = Call("transform_locals", n, 0, 0, xs)

\* Indices in and out of bounds.
Indices == 0..MaxInst

\* Parent slices handed in by the caller, by length.
ParentWorld(len) == [k \in 1..len |-> IF k % 2 = 1 THEN InstB ELSE InstA]

\* <<range.start, range.end, parents_world_transform.len()>>: the whole range
\* with a parent slice of its size (in and out of bounds), a sub-range, a
\* parent slice shorter and longer than the range, an inverted range, and a
\* range past the end.
UpdateArgs ==
    {<<0, len, len>> : len \in 0..(MaxInst + 1)}
        \cup {<<1, 2, 1>>, <<0, 2, 1>>, <<0, 1, 2>>, <<2, 1, 1>>,
              <<1, MaxInst + 1, 1>>}

NextProp ==
    \/ \E n \in Nodes, a \in UpdateArgs :
          UpdateWorldTransforms(n, a[1], a[2], ParentWorld(a[3]))
    \/ \E n \in Nodes : UpdateWorldTransformAll(n)
    \/ \E n \in Nodes, idx \in Indices : SetLocalTransform(n, idx, InstA)
    \/ \E n \in Nodes, idx \in Indices : GetLocalTransform(n, idx)
    \/ \E n \in Nodes, idx \in Indices : GetWorldTransform(n, idx)
    \/ \E n \in Nodes : DynTransformLocal(n, InstB)
    \/ \E n \in Nodes, xs \in {<<>>, <<InstB>>} : DynTransformLocals(n, xs)

SpecProp == InitProp /\ [][NextProp]_vars

\* ------------------------------------------------------- picking, end to end
\* What the flows' on_render return: nothing, a custom closure, one drawable,
\* and compositions two deep with ids shared between flows (id 0 included).
RenderSamples ==
    {RenderNone,
     Custom,
     Default(1),
     Composed(<<Defaults(<<1, 2>>),
                Composed(<<GUI(2), RenderNone, Transparent(1)>>)>>),
     Composed(<<Terrain(0), Transparents(<<2, 2>>), Custom>>)}

InitPick ==
    /\ overflow_checks = FALSE
    /\ Constructed(CHOOSE k \in KindPatterns : TRUE, 1)
    /\ \E w \in BOOLEAN, rs \in [Flows -> RenderSamples] : AppStarted(w, rs)
    /\ MergeIdle
    /\ MathIdle
    /\ LifeIdle

CommitHandler(st) ==
    /\ mouse' = st.mouse
    /\ spawned' = st.spawned
    /\ events' = st.events
    /\ app_state' = st.app_state
    /\ ctx_configured' = st.ctx_configured
    /\ last_pick' = st.pick
    /\ UNCHANGED <<wasm32, renders>>
    /\ UNCHANGED treeVars
    /\ UNCHANGED mergeVars
    /\ UNCHANGED mathVars

CommitApp(st) ==
    /\ CommitHandler(st)
    /\ UNCHANGED lifeVars

\* window_event, WindowEvent::MouseInput, (MouseButton::Left, true), with
\* draw_to_pick_buffer inlined.
MouseInputLeftPressed ==
    /\ clicks < MaxClicks
    /\ clicks' = clicks + 1
    /\ LET map == enumerate_map_ids(renders, 0, EmptyMap)
           st == [Handler("mouse_input") EXCEPT !.mouse.pressed = "Left"]
       IN  /\ translation' = map
           /\ IF wasm32
              THEN CommitApp(spawn_local(st, Future("pick", map)))
              ELSE \E hit \in Pixels(map) :
                      LET picked == translation_get(map, texel(hit))
                          rd == [st EXCEPT !.pick.read = Some(texel(hit)),
                                           !.pick.covered = hit]
                      IN  IF picked = None THEN CommitApp(rd)
                          ELSE \E order \in Orders(picked[1][2]),
                                  outs \in [picked[1][2] -> Outs] :
                                  CommitApp(mouse_input_picked(
                                      rd, picked[1][1], picked[1][2], order, outs,
                                      one_future(order)))

MouseInputRightPressed ==
    /\ CommitApp([Handler("mouse_input") EXCEPT !.mouse.pressed = "Right"])
    /\ UNCHANGED <<translation, clicks>>

MouseInputReleased ==
    /\ CommitApp([Handler("mouse_input") EXCEPT !.mouse.pressed = "None"])
    /\ UNCHANGED <<translation, clicks>>

\* A future handed to spawn_local runs to completion: the read-back of
\* draw_to_pick_buffer, or the join_all of handle_flow_output.
FutureResolves(i) ==
    /\ i \in 1..Len(spawned)
    /\ LET fut == spawned[i]
           st == [Handler("future") EXCEPT !.spawned = vec_remove(@, i - 1)]
       IN  IF fut.tag = "pick"
           THEN \E hit \in Pixels(fut.translation) :
                   LET picked == translation_get(fut.translation, texel(hit))
                       rd == [st EXCEPT !.pick.read = Some(texel(hit)),
                                        !.pick.covered = hit]
                   IN  IF picked = None THEN CommitApp(rd)
                       ELSE CommitApp(send_event(
                                rd, FlowEventId(picked[1][1], picked[1][2])))
           ELSE IF fut.tag = "FutFn" THEN CommitApp(send_muts(st, fut.resolved))
           ELSE CommitApp(send_customs(st, fut.resolved))
    /\ UNCHANGED <<translation, clicks>>

\* user_event on the oldest undelivered FlowEvent.
UserEvent ==
    /\ events # <<>>
    /\ LET event == Head(events)
           st == [Handler("user_event") EXCEPT !.events = Tail(@)]
       IN  IF event.tag = "Id"
           THEN \E order \in Orders(event.flow_ids),
                   outs \in [event.flow_ids -> Outs] :
                   CommitApp(user_event_id(
                       st, event.pick_id, event.flow_ids, order, outs))
           ELSE IF event.tag = "Custom"
           THEN \E consumed \in BOOLEAN :
                   CommitApp(IF consumed THEN st
                             ELSE log_warn(st, "custom_not_consumed"))
           ELSE CommitApp([st EXCEPT !.app_state = Append(@, event.payload)])
    /\ UNCHANGED <<translation, clicks>>

NextPick ==
    \/ MouseInputLeftPressed
    \/ MouseInputRightPressed
    \/ MouseInputReleased
    \/ \E i \in 1..MaxClicks : FutureResolves(i)
    \/ UserEvent

SpecPick == InitPick /\ [][NextPick]_vars

\* ------------------------------------------------------ merge, end to end
\* Channels as load_model_gltf reads them: one or two samples of a
\* translation (two different single samples), rotation or scale channel
\* with as many timestamps, or a channel without usable outputs.
KeyframeSamples ==
    {Translation(<<Vec3(1, 0, 0)>>),
     Translation(<<Vec3(4, 0, 0)>>),
     Translation(<<Vec3(2, 0, 0), Vec3(3, 0, 0)>>),
     Rotation(<<1>>),
     Rotation(<<2, 3>>),
     Scale(<<Vec3(1, 1, 2)>>),
     Scale(<<Vec3(1, 1, 3), Vec3(1, 1, 4)>>),
     Other}

\* Timestamps that tell the channels and the names apart.
Timestamps(name, keyframes) ==
    LET base == (IF name = "walk" THEN 0 ELSE 100)
                  + (IF keyframes.tag = "Translation" THEN 10
                     ELSE IF keyframes.tag = "Rotation" THEN 20
                     ELSE IF keyframes.tag = "Scale" THEN 30 ELSE 40)
    IN  [i \in 1..Max(Len(keyframes.values), 1) |-> base + i]

ClipNames == {"walk", "run"}

Clip(name, kf) == AnimationClip(name, kf, Timestamps(name, kf))

\* The clips of one animation for one node: up to MaxClips channels in any
\* order ...
HeadLists(name) ==
    UNION {[1..len -> {Clip(name, kf) : kf \in KeyframeSamples}] :
              len \in 0..MaxClips}

OtherName(name) == IF name = "walk" THEN "run" ELSE "walk"

EvenGroup(name) ==
    <<Clip(name, Translation(<<Vec3(5, 0, 0)>>)), Clip(name, Rotation(<<5>>)),
      Clip(name, Scale(<<Vec3(1, 1, 5)>>))>>

UnevenGroup(name) ==
    <<Clip(name, Translation(<<Vec3(6, 0, 0), Vec3(7, 0, 0)>>)),
      Clip(name, Rotation(<<6>>)), Clip(name, Scale(<<Vec3(1, 1, 6)>>))>>

\* ... followed by the clips of further animations for the same node: none,
\* a complete one, one with channels of different lengths, one with a single
\* channel, and two of which the second takes up the first name again.
TailLists(name) ==
    {<<>>,
     EvenGroup(OtherName(name)),
     UnevenGroup(OtherName(name)),
     <<Clip(OtherName(name), Translation(<<Vec3(8, 0, 0)>>))>>,
     EvenGroup(OtherName(name)) \o UnevenGroup(name)}

ClipLists(names) ==
    UNION {{head \o tail : head \in HeadLists(name), tail \in TailLists(name)} :
              name \in names}

InitMerge ==
    /\ overflow_checks = FALSE
    /\ Constructed(CHOOSE k \in KindPatterns : TRUE, 1)
    /\ AppStarted(FALSE, [f \in Flows |-> RenderNone])
    /\ clips \in ClipLists(ClipNames)
    /\ merged = NotMerged
    /\ LoadIdle
    /\ MathIdle
    /\ LifeIdle

Merge ==
    /\ merged = NotMerged
    /\ merged' = merge(clips)
    /\ UNCHANGED <<clips, gltf, anims, models, root_node, merge_log, loading,
                   animated>>
    /\ UNCHANGED <<treeVars, appVars, mathVars, lifeVars>>

NextMerge == Merge

SpecMerge == InitMerge /\ [][NextMerge]_vars

\* ---------------------------------------- load_model_gltf (resources/mod.rs)
MaxChannels == 3

\* A channel of an animation: its target node, the name of the animation,
\* and the accessors of its sampler as the reader yields them.
Channel_(node, name, inputs, times, outputs, count) ==
    [node |-> node, name |-> name, inputs |-> inputs, times |-> times,
     outputs |-> outputs, count |-> count]

\* reader.read_inputs(): the times of a standard accessor, none of a sparse
\* one and none without inputs
read_inputs(channel) ==
    IF channel.inputs = "Standard" THEN [i \in 1..channel.times |-> i] ELSE <<>>

\* reader.read_outputs(): translations, rotations and scales are collected,
\* morph target weights and a channel without outputs become Keyframes::Other
read_outputs(channel) ==
    IF channel.outputs = "Translations"
    THEN Translation([i \in 1..channel.count |-> Vec3(i, 0, 0)])
    ELSE IF channel.outputs = "Rotations"
    THEN Rotation([i \in 1..channel.count |-> i])
    ELSE IF channel.outputs = "Scales"
    THEN Scale([i \in 1..channel.count |-> Vec3(1, 1, i)])
    ELSE Other

clip_of(channel) ==
    AnimationClip(channel.name, read_outputs(channel), read_inputs(channel))

anims_entry_or_default(map, key, clip) ==
    IF key \in DOMAIN map THEN [map EXCEPT ![key] = Append(@, clip)]
    ELSE map @@ (key :> <<>>)

\* animations.entry(node).and_modify(|v| v.push(clip)).or_insert(vec![clip])
anims_entry(map, key, clip) ==
    IF key \in DOMAIN map THEN [map EXCEPT ![key] = Append(@, clip)]
    ELSE map @@ (key :> <<clip>>)

\* for animation in gltf.animations() { for channel in animation.channels() }
RECURSIVE load_animations(_, _, _)
load_animations(map, channels, k) ==
    IF k > Len(channels) THEN map
    ELSE load_animations(
             anims_entry(map, channels[k].node, clip_of(channels[k])),
             channels, k + 1)

\* The nodes under construction and the run so far: the clip lists merge was
\* called with and whether a call aborted, after which nothing more is
\* called.
Building ==
    [kind |-> kind, children |-> children, instances |-> instances,
     instance_buffer |-> instance_buffer,
     run |-> [log |-> merge_log, panicked |-> FALSE]]

\* Some(clips) => merge(clips.clone()), None => Default::default()
merge_for(run, n) ==
    IF run.panicked \/ n \notin DOMAIN anims THEN run
    ELSE [log |-> Append(run.log, anims[n]),
          panicked |-> merge(anims[n]).status = "panicked"]

\* ContainerNode::new(1, animations) or ModelNode::from_model(1, ..), then
\* set_local_transform(0, node.transform())
new_scene_node(n) ==
    LET made == [instances |-> (n :> default_pairs(1))]
    IN  [kind |-> IF gltf.mesh[n] THEN "Model" ELSE "Container",
         instances |-> set_local_transform(made, n, 0, InstA).instances[n],
         instance_buffer |-> create_buffer_init(raw_instances(default_pairs(1)))]

RECURSIVE to_scene_node(_, _)
RECURSIVE to_scene_node_children(_, _, _, _)
to_scene_node(b, n) ==
    to_scene_node_children(
        [b EXCEPT !.run = merge_for(@, n),
                  !.kind[n] = new_scene_node(n).kind,
                  !.children[n] = <<>>,
                  !.instances[n] = new_scene_node(n).instances,
                  !.instance_buffer[n] = new_scene_node(n).instance_buffer],
        n, gltf.children[n], 1)
\* for child in node.children() { scene_node.add_child(to_scene_node(child)) }
to_scene_node_children(b, n, cs, k) ==
    IF k > Len(cs) THEN b
    ELSE to_scene_node_children(
             [to_scene_node(b, cs[k]) EXCEPT !.children[n] = Append(@, cs[k])],
             n, cs, k + 1)

\* What one channel can be: a single sample of a translation, rotation or
\* scale, morph target weights, or a sampler without outputs.
ChannelOutputs ==
    {"Translations", "Rotations", "Scales", "MorphTargetWeights", "None"}

\* The nodes that animations target.
Targets == {2, NumNodes}

ChannelSamples ==
    {Channel_(node, "walk", "Standard", 1, outputs, 1) :
        node \in Targets, outputs \in ChannelOutputs}

\* The scenes of the document: one root node, several, or none. Several
\* roots are the nodes below the first node, which then stands for the
\* container load_model_gltf makes.
SceneRoots == {<<Root>>, HeapChildren(Root), <<>>}

Documents ==
    {[roots |-> roots,
      children |-> [n \in Nodes |-> IF roots = <<>> THEN <<>> ELSE HeapChildren(n)],
      mesh |-> [n \in Nodes |-> k[n] = "Model"],
      channels |-> channels] :
        roots \in SceneRoots, k \in KindPatterns,
        channels \in UNION {[1..len -> ChannelSamples] : len \in 0..MaxChannels}}

InitLoad ==
    /\ overflow_checks = TRUE
    /\ kind = [n \in Nodes |-> "Unbuilt"]
    /\ children = [n \in Nodes |-> <<>>]
    /\ instances = [n \in Nodes |-> <<>>]
    /\ buffer_size_needs_change = [n \in Nodes |-> FALSE]
    /\ front_face = [n \in Nodes |-> "Ccw"]
    /\ instance_buffer = [n \in Nodes |-> create_buffer_init(<<>>)]
    /\ gpu_call = [n \in Nodes |-> "none"]
    /\ panicked = FALSE
    /\ last_call = NoCall
    /\ returned = None
    /\ steps = 0
    /\ AppStarted(FALSE, [f \in Flows |-> RenderNone])
    /\ clips = <<>> /\ merged = NotMerged
    /\ gltf \in Documents
    /\ anims = <<>> /\ models = <<>> /\ root_node = None /\ merge_log = <<>>
    /\ loading = "animations" /\ animated = NotAnimated
    /\ MathIdle
    /\ LifeIdle

LoadCommit(b) ==
    /\ kind' = b.kind
    /\ children' = b.children
    /\ instances' = b.instances
    /\ instance_buffer' = b.instance_buffer
    /\ merge_log' = b.run.log
    /\ panicked' = b.run.panicked
    /\ UNCHANGED <<buffer_size_needs_change, front_face, gpu_call,
                   overflow_checks, last_call, returned, steps>>
    /\ UNCHANGED <<clips, merged, gltf, animated>>
    /\ UNCHANGED <<appVars, mathVars, lifeVars>>

\* The animation loop, up to the materials.
LoadAnimations ==
    /\ loading = "animations"
    /\ anims' = load_animations(<<>>, gltf.channels, 1)
    /\ loading' = "scenes"
    /\ UNCHANGED <<models, root_node>>
    /\ LoadCommit(Building)

\* for node in scene.nodes() { models.push(to_scene_node(node, ..)) }; an
\* abort leaves no node behind.
ToSceneNode ==
    /\ loading = "scenes" /\ ~panicked
    /\ Len(models) < Len(gltf.roots)
    /\ \E b \in {to_scene_node(Building, gltf.roots[Len(models) + 1])} :
          /\ LoadCommit(IF b.run.panicked THEN [Building EXCEPT !.run = b.run]
                        ELSE b)
          /\ models' = IF b.run.panicked THEN models
                       ELSE Append(models, gltf.roots[Len(models) + 1])
    /\ UNCHANGED <<anims, root_node, loading>>

\* The only model, or a ContainerNode::new(0, Vec::new()) holding them all.
ReturnRoot ==
    /\ loading = "scenes" /\ ~panicked
    /\ Len(models) = Len(gltf.roots)
    /\ IF Len(models) = 1
       THEN LoadCommit(Building)
       ELSE LoadCommit([Building EXCEPT !.kind[Root] = "Container",
                                        !.instances[Root] = default_pairs(0),
                                        !.children[Root] = models])
    /\ root_node' = Some(IF Len(models) = 1 THEN models[1] ELSE Root)
    /\ loading' = "returned"
    /\ UNCHANGED <<anims, models>>

\* The caller's update_world_transform_all on the returned root.
UpdateReturned ==
    /\ loading = "returned"
    /\ loading' = "updated"
    /\ LoadCommit([Building EXCEPT
                      !.instances = update_world_transform_all(instances, Root)])
    /\ UNCHANGED <<anims, models, root_node>>

NextLoad ==
    \/ LoadAnimations
    \/ ToSceneNode
    \/ ReturnRoot
    \/ UpdateReturned

SpecLoad == InitLoad /\ [][NextLoad]_vars

\* ------------------------------------------ animate_graph (animation.rs)
MaxSamples == 2
MaxTime == 3

\* for timestamp in &animation.timestamps { .. }: the keyframe index after
\* the first k timestamps
RECURSIVE keyframe_index(_, _, _, _)
keyframe_index(timestamps, current_time, k, index) ==
    IF k > Len(timestamps) THEN index
    ELSE IF timestamps[k] > current_time THEN index
    ELSE keyframe_index(timestamps, current_time, k + 1,
                        IF index < Len(timestamps) - 1 THEN index + 1 ELSE index)

current_keyframe_index(animation, current_time) ==
    keyframe_index(animation.timestamps, current_time, 1, 0)

\* &animation.instances[current_keyframe_index]
index_in_bounds(insts, index) == index < Len(insts)

\* animate_graph on a node that holds `animations`
animate_graph(animations, anim_idx, current_time) ==
    IF anim_idx >= Len(animations)
    THEN [status |-> "skipped", anim_idx |-> anim_idx, time |-> current_time,
          index |-> 0]
    ELSE LET animation == animations[anim_idx + 1]
             index == current_keyframe_index(animation, current_time)
         IN  [status |-> IF index_in_bounds(animation.instances, index)
                         THEN "set" ELSE "panicked",
              anim_idx |-> anim_idx, time |-> current_time, index |-> index]

\* The translation, rotation and scale channels of one animation of one
\* node, each with its own input and output accessor.
SamplerShapes ==
    {[inputs |-> inputs, times |-> times, count |-> count] :
        inputs \in {"Standard", "Sparse"}, times \in 1..MaxSamples,
        count \in 1..MaxSamples}

AnimatedClips ==
    {<<clip_of(Channel_(Root, "walk", t.inputs, t.times, "Translations", t.count)),
       clip_of(Channel_(Root, "walk", r.inputs, r.times, "Rotations", r.count)),
       clip_of(Channel_(Root, "walk", "Standard", sc.times, "Scales", sc.count))>> :
        t \in SamplerShapes, r \in SamplerShapes, sc \in SamplerShapes}

InitAnimate ==
    /\ overflow_checks = TRUE
    /\ Constructed(CHOOSE k \in KindPatterns : TRUE, 1)
    /\ AppStarted(FALSE, [f \in Flows |-> RenderNone])
    /\ clips \in AnimatedClips
    /\ merged = NotMerged
    /\ LoadIdle
    /\ MathIdle
    /\ LifeIdle

\* Animation::animate after `current_time` seconds: animate_graph on the
\* node that holds the merged animations.
AnimateGraph(anim_idx, current_time) ==
    /\ merged.status = "returned"
    /\ animated = NotAnimated
    /\ ~panicked
    /\ \E done \in {animate_graph(merged.animations, anim_idx, current_time)} :
          /\ animated' = done
          /\ panicked' = (done.status = "panicked")
          /\ instances' =
                IF done.status = "set"
                THEN set_local_transform(TreeState, Root, 0,
                        merged.animations[anim_idx + 1].instances[done.index + 1]
                     ).instances
                ELSE instances
    /\ UNCHANGED <<kind, children, buffer_size_needs_change, front_face,
                   instance_buffer, gpu_call, overflow_checks, last_call,
                   returned, steps>>
    /\ UNCHANGED <<clips, merged, gltf, anims, models, root_node, merge_log,
                   loading>>
    /\ UNCHANGED <<appVars, mathVars, lifeVars>>

NextAnimate ==
    \/ Merge
    \/ \E anim_idx \in 0..1, current_time \in 0..MaxTime :
          AnimateGraph(anim_idx, current_time)

SpecAnimate == InitAnimate /\ [][NextAnimate]_vars

\* ------------------------------------------ transform_locals on its inputs
At(x, y, z) ==
    [position |-> Vec3(x, y, z), rotation |-> 0, scale |-> Vec3(1, 1, 1)]

\* Parents and children as the callers and the unit tests pass them: the
\* identity, pure translations, and turned, stretched and mirrored frames.
ParentSamples == {InstanceNew, At(10, 0, 0), InstA, InstB}
ChildSamples == {InstanceNew, At(1, 0, 0), InstA, InstB}

RECURSIVE SeqsUpTo(_, _)
SeqsUpTo(set, len) ==
    IF len = 0 THEN {<<>>}
    ELSE LET shorter == SeqsUpTo(set, len - 1)
         IN  shorter \cup {Append(q, x) : q \in {r \in shorter : Len(r) = len - 1},
                                           x \in set}

InitLocals ==
    /\ overflow_checks = FALSE
    /\ Constructed(CHOOSE k \in KindPatterns : TRUE, 1)
    /\ AppStarted(FALSE, [f \in Flows |-> RenderNone])
    /\ MergeIdle
    /\ LifeIdle
    /\ parent \in ParentSamples
    /\ locals \in SeqsUpTo(ChildSamples, MaxLocals)
    /\ transformed = None
    /\ single = [k \in 1..Len(locals) |-> None]
    /\ lhs = InstanceNew /\ rhs = InstanceNew
    /\ by_value = None /\ by_ref = None

TransformLocals ==
    /\ transformed = None
    /\ transformed' = Some(transform_locals(parent, locals))
    /\ UNCHANGED <<parent, locals, single, lhs, rhs, by_value, by_ref>>
    /\ UNCHANGED <<treeVars, appVars, mergeVars, lifeVars>>

TransformLocal(k) ==
    /\ single[k] = None
    /\ single' = [single EXCEPT ![k] = Some(transform_local(parent, locals[k]))]
    /\ UNCHANGED <<parent, locals, transformed, lhs, rhs, by_value, by_ref>>
    /\ UNCHANGED <<treeVars, appVars, mergeVars, lifeVars>>

NextLocals ==
    \/ TransformLocals
    \/ \E k \in 1..Len(locals) : TransformLocal(k)

SpecLocals == InitLocals /\ [][NextLocals]_vars

\* ------------------------------------------------------ `*` on its operands
Positions == {Vec3(0, 0, 0), Vec3(1, 2, 0), Vec3(10, 0, -3)}
Rotations == 0..7
Scales == {Vec3(1, 1, 1), Vec3(2, 1, 1), Vec3(-1, 1, 3)}

Operands == [position : Positions, rotation : Rotations, scale : Scales]

InitMul ==
    /\ overflow_checks = FALSE
    /\ Constructed(CHOOSE k \in KindPatterns : TRUE, 1)
    /\ AppStarted(FALSE, [f \in Flows |-> RenderNone])
    /\ MergeIdle
    /\ LifeIdle
    /\ parent = InstanceNew /\ locals = <<>> /\ transformed = None /\ single = <<>>
    /\ lhs \in Operands /\ rhs \in Operands
    /\ by_value = None /\ by_ref = None

MulByValue ==
    /\ by_value = None
    /\ by_value' = Some(MulOwned(lhs, rhs))
    /\ UNCHANGED <<parent, locals, transformed, single, lhs, rhs, by_ref>>
    /\ UNCHANGED <<treeVars, appVars, mergeVars, lifeVars>>

MulByRef ==
    /\ by_ref = None
    /\ by_ref' = Some(Mul(lhs, rhs))
    /\ UNCHANGED <<parent, locals, transformed, single, lhs, rhs, by_value>>
    /\ UNCHANGED <<treeVars, appVars, mergeVars, lifeVars>>

NextMul == MulByValue \/ MulByRef

SpecMul == InitMul /\ [][NextMul]_vars

\* ------------------------------------------- application start (flow.rs)
FlowEventInitialized == [tag |-> "Initialized", pick_id |-> 0, flow_ids |-> {}]

on_init_skipped(flows) == <<>>

\* flow.on_init(..) on every flow, in the order of the vector
on_init_each(flows) == [k \in 1..Len(flows) |-> <<flows[k], "on_init">>]

\* self.graphics_flows.iter_mut().for_each(|f| f.<hook>(..)): the calls made
Invoked(flows, hook) == [k \in 1..Len(flows) |-> <<flows[k], hook>>]

\* The futures of the Out returned by hook call number `call` resolve to these
\* closures (Out::FutFn) or events (Out::FutEvent), in list order.
resolved_of(call) == [p \in 1..FuturesPerOut |-> <<call, p>>]

\* A handler under way: the application, the hook calls it made so far and,
\* for each call, what it returned and the custom event it was given.
Run(st) == [st |-> st, made |-> <<>>, log |-> <<>>]

Entry(out, event) == [handler |-> handled + 1, out |-> out, event |-> event]

called(run, calls, outs) ==
    [run EXCEPT !.made = @ \o calls, !.log = @ \o outs]

\* ... and handle_flow_output on what each call returned
RECURSIVE for_each_flow(_, _, _, _)
for_each_flow(run, calls, k, outs) ==
    IF k > Len(calls) THEN run
    ELSE LET call == Len(hooks) + Len(run.made) + 1
             out == outs[calls[k][1]]
             after == called(run, <<calls[k]>>, <<Entry(out, None)>>)
         IN  for_each_flow(
                 [after EXCEPT !.st = handle_flow_output(@, out, resolved_of(call))],
                 calls, k + 1, outs)

\* The on_click calls of a pick handler and the Outs they returned.
clicked(run, done, outs) ==
    called(run, Invoked(done.pick.clicked, "on_click"),
           [k \in 1..Len(done.pick.clicked) |->
               Entry(outs[done.pick.clicked[k]], None)])

\* What on_custom_events answers: None (consumed), the event it was given, or
\* another event.
Answers == {"None", "Same", "Other"}

on_custom_events(flow, event, answer) ==
    IF answer = "None" THEN None
    ELSE IF answer = "Same" THEN Some(event)
    ELSE Some(<<"from", flow, event>>)

RECURSIVE fold_custom_all(_, _, _, _, _)
fold_custom_all(run, flows, k, event, answers) ==
    IF k > Len(flows) THEN [run |-> run, result |-> event]
    ELSE fold_custom_all(
             called(run, <<<<flows[k], "on_custom_events">>>>,
                    <<Entry(answers[flows[k]], event)>>),
             flows, k + 1,
             IF on_custom_events(flows[k], event[1], answers[flows[k]]) = None
             THEN event
             ELSE on_custom_events(flows[k], event[1], answers[flows[k]]),
             answers)

\* self.graphics_flows.iter_mut().fold(Some(custom_event), |event, flow|
\*     flow.on_custom_events(&state.ctx, &mut state.state, event?))
RECURSIVE fold_custom(_, _, _, _, _)
fold_custom(run, flows, k, event, answers) ==
    IF k > Len(flows) THEN [run |-> run, result |-> event]
    ELSE IF event = None
    THEN fold_custom(run, flows, k + 1, None, answers)
    ELSE fold_custom(
             called(run, <<<<flows[k], "on_custom_events">>>>,
                    <<Entry(answers[flows[k]], event)>>),
             flows, k + 1,
             on_custom_events(flows[k], event[1], answers[flows[k]]),
             answers)

\* `match &mut self.state { Some(state) => state, None => return }`
state_is_some == self_state # None

\* What a hook returns in these runs: nothing, futures of custom events, or
\* futures of closures on the State.
HookOuts == {"Empty", "FutEvent", "FutFn"}

\* ... by flow, at most one flow of a handler returning futures.
Returns(flows) ==
    {outs \in [flows -> HookOuts] :
        \A f, g \in flows : outs[f] # "Empty" /\ outs[g] # "Empty" => f = g}

\* The time between two RedrawRequested events.
Dts == {1, TickDuration}

StartRenders == [f \in Flows |-> Default(1)]

Ev(op, event, render, dt) ==
    [op |-> op, event |-> event, render |-> render, dt |-> dt]

InitLife ==
    /\ overflow_checks = FALSE
    /\ Constructed(CHOOSE k \in KindPatterns : TRUE, 1)
    /\ \E w \in BOOLEAN : AppStarted(w, StartRenders)
    /\ MergeIdle
    /\ MathIdle
    /\ constructors = Some(NumFlows) /\ self_state = None
    /\ graphics_flows = <<>> /\ init_future = "none"
    /\ hooks = <<>> /\ handled = 0 /\ dropped = 0
    /\ exited = FALSE /\ aborted = FALSE
    /\ call_log = <<>> /\ time_since_tick = 0
    /\ is_surface_configured = FALSE
    /\ last_event = Ev("none", "none", "none", 0)

LifeRunning == ~exited /\ ~aborted /\ handled < MaxHandled

\* A handler ran to its end, having made the calls of `run`.
Handled(run, event, acc) ==
    /\ CommitHandler(run.st)
    /\ hooks' = hooks \o run.made
    /\ call_log' = call_log \o run.log
    /\ handled' = handled + 1
    /\ last_event' = event
    /\ time_since_tick' = acc

\* The handler found App.state empty and returned at once.
Dropped(op) ==
    /\ Handled(Run(Handler(op)), Ev(op, "none", "none", 0), time_since_tick)
    /\ dropped' = dropped + 1
    /\ UNCHANGED <<constructors, self_state, graphics_flows, init_future,
                   exited, aborted, is_surface_configured, translation, clicks>>

\* ApplicationHandler::resumed
Resumed ==
    /\ LifeRunning
    /\ IF constructors = None
       THEN /\ aborted' = TRUE
            /\ Handled(Run(Handler("resumed")), Ev("resumed", "none", "none", 0),
                       time_since_tick)
            /\ UNCHANGED <<constructors, self_state, graphics_flows, init_future>>
       ELSE /\ constructors' = None
            /\ IF wasm32
               THEN /\ init_future' = "pending"
                    /\ Handled(Run(Handler("resumed")),
                               Ev("resumed", "none", "none", 0), time_since_tick)
                    /\ UNCHANGED <<self_state, graphics_flows, aborted>>
               ELSE \E outs \in Returns(Flows) :
                       /\ graphics_flows' = AllFlows
                       /\ self_state' = Some("AppState")
                       /\ Handled(for_each_flow(Run(Handler("resumed")),
                                                on_init_each(AllFlows), 1, outs),
                                  Ev("resumed", "none", "none", 0), time_since_tick)
                       /\ UNCHANGED <<init_future, aborted>>
    /\ UNCHANGED <<dropped, exited, is_surface_configured, translation, clicks>>

\* wasm32: the init future completes and sends FlowEvent::Initialized.
InitFutureResolves ==
    /\ ~exited /\ ~aborted
    /\ init_future = "pending"
    /\ init_future' = "sent"
    /\ CommitHandler(send_event(Handler("init_future"), FlowEventInitialized))
    /\ UNCHANGED <<constructors, self_state, graphics_flows, hooks, handled,
                   dropped, exited, aborted, call_log, time_since_tick,
                   is_surface_configured, last_event, translation, clicks>>

\* ApplicationHandler::user_event on the oldest undelivered FlowEvent.
UserEventLife ==
    /\ LifeRunning
    /\ events # <<>>
    /\ LET event == Head(events)
           run == Run([Handler("user_event") EXCEPT !.events = Tail(@)])
           ev == Ev("user_event", event.tag, "none", 0)
       IN  IF event.tag = "Initialized"
           THEN \E outs \in Returns(Flows) :
                   /\ self_state' = Some("AppState")
                   /\ graphics_flows' = AllFlows
                   /\ Handled(for_each_flow(run, on_init_each(AllFlows), 1, outs),
                              ev, time_since_tick)
                   /\ UNCHANGED dropped
           ELSE IF ~state_is_some
           THEN /\ Handled(run, ev, time_since_tick)
                /\ dropped' = dropped + 1
                /\ UNCHANGED <<self_state, graphics_flows>>
           ELSE /\ UNCHANGED <<self_state, graphics_flows, dropped>>
                /\ IF event.tag = "Id"
                   THEN \E order \in Orders(event.flow_ids),
                           outs \in Returns(event.flow_ids) :
                           LET done == user_event_id(run.st, event.pick_id,
                                                     event.flow_ids, order, outs)
                           IN  Handled(clicked([run EXCEPT !.st = done], done, outs),
                                       ev, time_since_tick)
                   ELSE IF event.tag = "Custom"
                   THEN \E answers \in [Flows -> Answers] :
                           LET folded == fold_custom(run, graphics_flows, 1,
                                                     Some(event.payload), answers)
                           IN  Handled(
                                   IF folded.result # None
                                   THEN [folded.run EXCEPT
                                            !.st = log_warn(@, "custom_not_consumed")]
                                   ELSE folded.run,
                                   ev, time_since_tick)
                   ELSE Handled([run EXCEPT !.st = apply_mutations(@, <<event.payload>>)],
                                ev, time_since_tick)
    /\ UNCHANGED <<constructors, init_future, exited, aborted,
                   is_surface_configured, translation, clicks>>

\* ApplicationHandler::device_event
DeviceEventLife ==
    /\ LifeRunning
    /\ IF ~state_is_some THEN Dropped("device_event")
       ELSE \E outs \in Returns(Flows) :
               /\ Handled(for_each_flow(Run(Handler("device_event")),
                                        Invoked(graphics_flows, "on_device_events"),
                                        1, outs),
                          Ev("device_event", "none", "none", 0), time_since_tick)
               /\ UNCHANGED <<constructors, self_state, graphics_flows, init_future,
                              dropped, exited, aborted, is_surface_configured,
                              translation, clicks>>

WindowEvents ==
    {"CloseRequested", "Resized", "RedrawRequested", "MouseInput"}

\* AppState::render: Ok(()) at once while the surface is not configured, a
\* panic when the surface gives no texture, else on_render on every flow.
RenderOutcomes == IF is_surface_configured THEN {"Ok", "panic"} ELSE {"Ok"}

render(run, flows) ==
    IF is_surface_configured
    THEN called(run, Invoked(flows, "on_render"),
                [k \in 1..Len(flows) |-> Entry("Render", None)])
    ELSE run

redraw_update_first(run, flows, acc, outs) ==
    LET due == acc >= TickDuration
        updated == for_each_flow(run, Invoked(flows, "on_update"), 1, outs)
    IN  [run |-> IF due
                 THEN for_each_flow(updated, Invoked(flows, "on_tick"), 1, outs)
                 ELSE updated,
         time_since_tick |-> IF due THEN 0 ELSE acc]

redraw_reset_always(run, flows, acc, outs) ==
    LET due == acc >= TickDuration
        ticked == IF due
                  THEN for_each_flow(run, Invoked(flows, "on_tick"), 1, outs)
                  ELSE run
    IN  [run |-> for_each_flow(ticked, Invoked(flows, "on_update"), 1, outs),
         time_since_tick |-> 0]

\* window_event, RedrawRequested, Ok(_) arm: the tick when it is due, the
\* reset of the accumulator, then the update.
redraw_ok(run, flows, acc, outs) ==
    LET due == acc >= TickDuration
        ticked == IF due
                  THEN for_each_flow(run, Invoked(flows, "on_tick"), 1, outs)
                  ELSE run
    IN  [run |-> for_each_flow(ticked, Invoked(flows, "on_update"), 1, outs),
         time_since_tick |-> IF due THEN 0 ELSE acc]

\* ApplicationHandler::window_event; MouseInput is the left button going down.
WindowEventLife(event) ==
    /\ LifeRunning
    /\ IF ~state_is_some THEN Dropped("window_event")
       ELSE \E outs \in Returns(Flows) :
          LET run == for_each_flow(Run(Handler("window_event")),
                                   Invoked(graphics_flows, "on_window_events"),
                                   1, outs)
              ev == Ev("window_event", event, "none", 0)
          IN  /\ UNCHANGED <<constructors, self_state, graphics_flows, init_future,
                             dropped>>
              /\ exited' = (event = "CloseRequested")
              /\ IF event = "RedrawRequested"
                 THEN /\ \E outcome \in RenderOutcomes, dt \in Dts :
                            LET acc == time_since_tick + dt
                                frame == Ev("window_event", event, outcome, dt)
                                done == redraw_ok(render(run, graphics_flows),
                                                  graphics_flows, acc, outs)
                            IN  /\ aborted' = (outcome = "panic")
                                /\ IF outcome = "Ok"
                                   THEN Handled(done.run, frame, done.time_since_tick)
                                   ELSE Handled(run, frame, acc)
                      /\ UNCHANGED <<is_surface_configured, translation, clicks>>
                 ELSE IF event = "Resized"
                 THEN /\ \E positive \in BOOLEAN :
                            is_surface_configured' =
                                (is_surface_configured \/ positive)
                      /\ Handled(run, ev, time_since_tick)
                      /\ UNCHANGED <<aborted, translation, clicks>>
                 ELSE IF event = "MouseInput"
                 THEN /\ clicks < MaxClicks
                      /\ clicks' = clicks + 1
                      /\ UNCHANGED <<aborted, is_surface_configured>>
                      /\ LET map == enumerate_map_ids(renders, 0, EmptyMap)
                             pressed == [run EXCEPT !.st.mouse.pressed = "Left"]
                         IN  /\ translation' = map
                             /\ IF wasm32
                                THEN Handled(
                                        [pressed EXCEPT
                                            !.st = spawn_local(@, Future("pick", map))],
                                        ev, time_since_tick)
                                ELSE \E id \in read_texture_buffer(map) :
                                   LET picked == translation_get(map, id)
                                       rd == [pressed EXCEPT !.st.pick.read = Some(id)]
                                   IN  IF picked = None
                                       THEN Handled(rd, ev, time_since_tick)
                                       ELSE \E order \in Orders(picked[1][2]) :
                                          LET base == Len(hooks) + Len(rd.made)
                                              done == mouse_input_picked(
                                                  rd.st, picked[1][1], picked[1][2],
                                                  order, outs,
                                                  [k \in 1..Len(order) |->
                                                      resolved_of(base + k)])
                                          IN  Handled(
                                                  clicked([rd EXCEPT !.st = done],
                                                          done, outs),
                                                  ev, time_since_tick)
                 ELSE /\ Handled(run, ev, time_since_tick)
                      /\ UNCHANGED <<aborted, is_surface_configured, translation,
                                     clicks>>

NextLife ==
    \/ Resumed
    \/ InitFutureResolves
    \/ UserEventLife
    \/ DeviceEventLife
    \/ \E event \in WindowEvents : WindowEventLife(event)
    \/ \E i \in 1..Len(spawned) : LifeRunning /\ FutureResolves(i)

SpecLife == InitLife /\ [][NextLife]_vars

\* ----------------------------------------------------------------- claims
CountOps ==
    {"add_instance", "add_instances", "set_instances", "clone_instance",
     "remove_instance"}

Aligned == \A n \in Nodes : Len(instances[n]) = Len(instances[Root])

\* A call of op on node n has just returned (it did not abort).
Returned(ops, n) ==
    /\ steps' = steps + 1
    /\ last_call'.op \in ops
    /\ last_call'.node = n
    /\ ~panicked'

\* C1: index alignment is preserved by every instance-count mutation applied
\* to the root: if all nodes have the root's instance count before
\* add_instance, add_instances, set_instances, clone_instance(i) or
\* remove_instance(i) on the root, and the call returns, all nodes (of either
\* kind, at any depth) have the root's instance count after it.
C1_IndexAlignmentPreserved ==
    [][(Aligned /\ Returned(CountOps, Root)) => Aligned']_vars

\* A valid clone on the root of an aligned tree with grandchildren returned.
C1_Witness ==
    /\ last_call.op = "clone_instance" /\ last_call.node = Root
    /\ ~panicked /\ Aligned
    /\ Len(instances[Root]) = 2
    /\ \E n \in Nodes : \E c \in 1..Len(children[Root]) :
          n \in Subtree(children[Root][c]) \ {children[Root][c]}

\* C6: dirty-flag protocol.  (1) Every instance-count mutation that returns
\* sets buffer_size_needs_change on every ModelNode of the subtree it was
\* applied to.  (2) write_to_buffers on a node reallocates the buffer of every
\* ModelNode of the subtree whose flag is set, writes in place (no
\* reallocation) where it is clear, and leaves every flag of the subtree
\* clear.  (3) Nothing but an instance-count mutation sets a flag, so a write
\* not preceded by a mutation since the last write reallocates nothing.
C6_DirtyFlagProtocol ==
    [][\A n \in Nodes :
         /\ Returned(CountOps, n) =>
               \A d \in ModelNodes(n) : buffer_size_needs_change'[d]
         /\ Returned({"write_to_buffers"}, n) =>
               \A d \in ModelNodes(n) :
                  /\ ~buffer_size_needs_change'[d]
                  /\ gpu_call'[d] = IF buffer_size_needs_change[d]
                                    THEN "create_buffer_init"
                                    ELSE "write_buffer"
         /\ (steps' = steps + 1 /\ last_call'.op \notin CountOps) =>
               \A d \in Nodes :
                  buffer_size_needs_change'[d] => buffer_size_needs_change[d]
      ]_vars

\* add_instance, then a reallocating write, then an in-place write: every
\* ModelNode holds a buffer of the grown size that the last write reused.
C6_Witness ==
    /\ last_call.op = "write_to_buffers" /\ last_call.node = Root
    /\ ~panicked
    /\ \A d \in ModelNodes(Root) :
          /\ gpu_call[d] = "write_buffer"
          /\ ~buffer_size_needs_change[d]
          /\ instance_buffer[d].size = 2
          /\ Len(instances[d]) = 2

\* ----------------------------------------------------- propagation claims
PropOps == {"update_world_transforms", "update_world_transform_all"}

Parent(d) == CHOOSE q \in Nodes : \E k \in 1..Len(children[q]) : children[q][k] = d

RECURSIVE PathWorld(_, _)
\* local_root[i] * ... * local_parent(n)[i] * local_n[i], left to right
PathWorld(n, i) ==
    IF n = Root THEN instances[n][i].local
    ELSE Mul(PathWorld(Parent(n), i), instances[n][i].local)

\* C2: after update_world_transform_all on the root of an index-aligned tree,
\* the world transform of every slot of every node is the left-to-right
\* product of the local transforms on the path from the root to the node.
C2_WorldIsPathProduct ==
    (/\ last_call.op = "update_world_transform_all"
     /\ last_call.node = Root
     /\ Aligned)
    => \A n \in Nodes : \A i \in 1..Len(instances[n]) :
          instances[n][i].world = PathWorld(n, i)

\* The call happened on an aligned tree with two slots, and a grandchild's
\* world transform differs from its local one and from its parent's.
C2_Witness ==
    /\ last_call.op = "update_world_transform_all" /\ last_call.node = Root
    /\ Aligned /\ Len(instances[Root]) = 2
    /\ \E n \in Nodes :
          /\ n # Root /\ Parent(n) # Root
          /\ instances[n][2].world # instances[n][2].local
          /\ instances[n][2].world # instances[Parent(n)][2].world
          /\ instances[n][2].world = PathWorld(n, 2)

\* The call recorded in last_call passed both precondition checks on its node.
PassedChecks ==
    /\ last_call.op = "update_world_transforms"
    /\ ~parent_too_long(last_call.pw, instances[last_call.node])
    /\ range_in_bounds(instances[last_call.node], last_call.start, last_call.end)

\* C3 as stated: after a call that passed both checks, every index i of the
\* range has world[i] = parent_world[i - range.start] * local[i], also when
\* parent_world is shorter than the range.
C3_EveryIndexOfRange ==
    PassedChecks =>
       \A i \in (last_call.start + 1)..last_call.end :
          /\ (i - last_call.start) \in DOMAIN last_call.pw
          /\ instances[last_call.node][i].world =
                Mul(last_call.pw[i - last_call.start],
                    instances[last_call.node][i].local)

\* C3 amended: after a call that passed both checks, every index i of the
\* range that parent_world covers (i - range.start < parent_world.len()) has
\* world[i] = parent_world[i - range.start] * local[i].
C3_CoveredIndexOfRange ==
    PassedChecks =>
       \A i \in (last_call.start + 1)..last_call.end :
          (i - last_call.start) \in DOMAIN last_call.pw =>
             instances[last_call.node][i].world =
                Mul(last_call.pw[i - last_call.start],
                    instances[last_call.node][i].local)

\* A passing call over a sub-range 1..2 whose world transform moved.
C3_Witness ==
    /\ PassedChecks
    /\ last_call.start = 1 /\ last_call.end = 2 /\ Len(last_call.pw) = 1
    /\ instances[last_call.node][2].world =
          Mul(last_call.pw[1], instances[last_call.node][2].local)
    /\ instances[last_call.node][2].world # instances[last_call.node][2].local
    /\ instances[last_call.node][2].world # InstanceNew

\* C4: a call whose parent slice is longer than the node's instance count, or
\* whose range is out of bounds for the node, does not abort and leaves every
\* world transform of the node and of all its descendants unchanged.
C4_RejectedCallChangesNothing ==
    [][\A n \in Nodes :
         (/\ steps' = steps + 1
          /\ last_call'.op = "update_world_transforms"
          /\ last_call'.node = n
          /\ \/ Len(last_call'.pw) > Len(instances[n])
             \/ ~(last_call'.start <= last_call'.end
                    /\ last_call'.end <= Len(instances[n])))
         => /\ ~panicked'
            /\ \A d \in Subtree(n) : worlds(instances'[d]) = worlds(instances[d])
      ]_vars

\* A call with a parent slice longer than the node's instances but a range
\* that is in bounds has returned.
C4_Witness ==
    /\ last_call.op = "update_world_transforms"
    /\ Len(last_call.pw) > Len(instances[last_call.node])
    /\ last_call.start < last_call.end
    /\ last_call.end <= Len(instances[last_call.node])
    /\ children[last_call.node] # <<>>
    /\ ~panicked

RECURSIVE PathFrom(_, _)
\* the nodes from n down to its descendant d, both included
PathFrom(n, d) == IF d = n THEN {n} ELSE {d} \cup PathFrom(n, Parent(d))

\* A propagation call on node n is being made by this step.
PropCall(n) ==
    /\ steps' = steps + 1
    /\ last_call'.op \in PropOps
    /\ last_call'.node = n

\* C5 as stated: one call on the root (with a parent slice of the size of the
\* range, as update_world_transform_all passes) either recomputes the world
\* transforms of the range in every node of the tree or changes no world
\* transform at all.
C5_AllOrNothingOverSubtree ==
    [][(/\ PropCall(Root)
        /\ Len(last_call'.pw) = last_call'.end - last_call'.start)
       => \/ \A d \in Nodes : worlds(instances'[d]) = worlds(instances[d])
          \/ \A d \in Nodes :
                /\ last_call'.end <= Len(instances'[d])
                /\ \A i \in (last_call'.start + 1)..last_call'.end :
                      instances'[d][i].world =
                         Mul(IF d = Root THEN last_call'.pw[i - last_call'.start]
                             ELSE instances'[Parent(d)][i].world,
                             instances'[d][i].local)
      ]_vars

\* The check a node makes on the slice it is handed: the caller's slice on
\* the node of the call, the parent's collected world transforms below it.
PassesOwnChecks(n, d, call) ==
    LET handed == IF d = n THEN Len(call.pw)
                  ELSE Min(call.end - call.start, Len(call.pw))
    IN  /\ handed <= Len(instances[d])
        /\ call.start <= call.end
        /\ call.end <= Len(instances[d])

\* C5 amended: propagation is all-or-nothing per node, not per subtree.  In
\* one call on node n, a node d of the subtree whose own checks pass, as do
\* those of every node between n and d, gets the covered part of the range
\* recomputed from the slice it is handed (world[i] = handed[i - start] *
\* local[i]) and keeps its other slots; a node that fails its checks, and
\* every node below it, keeps all its world transforms, while the nodes
\* updated before it stay updated.
C5_AllOrNothingPerNode ==
    [][\A n \in Nodes : PropCall(n) =>
         LET call == last_call'
             m == Min(call.end - call.start, Len(call.pw))
         IN  \A d \in Subtree(n) :
                IF \A a \in PathFrom(n, d) : PassesOwnChecks(n, a, call)
                THEN /\ Len(instances'[d]) = Len(instances[d])
                     /\ \A i \in 1..Len(instances[d]) :
                           /\ instances'[d][i].local = instances[d][i].local
                           /\ instances'[d][i].world =
                                IF i > call.start /\ i <= call.start + m
                                THEN Mul(IF d = n THEN call.pw[i - call.start]
                                         ELSE instances'[Parent(d)][i].world,
                                         instances[d][i].local)
                                ELSE instances[d][i].world
                ELSE instances'[d] = instances[d]
      ]_vars

\* update_world_transform_all on the root returned with the root updated and
\* a child, one instance short, left with a stale world transform.
C5_Witness ==
    /\ last_call.op = "update_world_transform_all" /\ last_call.node = Root
    /\ Len(instances[Root]) = 2
    /\ instances[Root][1].world = instances[Root][1].local
    /\ instances[Root][1].world # InstanceNew
    /\ \E d \in Nodes \ {Root} :
          /\ Parent(d) = Root
          /\ Len(instances[d]) = 1
          /\ instances[d][1].world = InstanceNew
          /\ Mul(instances[Root][1].world, instances[d][1].local) # InstanceNew

\* --------------------------------------------------------- picking claims
\* The ids of the drawables of a render description, at any depth.
RECURSIVE DrawableIds(_)
DrawableIds(r) ==
    IF r.tag \in {"Default", "Transparent", "GUI", "Terrain"} THEN {r.id}
    ELSE IF r.tag \in {"Defaults", "Transparents"}
    THEN {r.ids[k] : k \in 1..Len(r.ids)}
    ELSE IF r.tag = "Composed"
    THEN UNION {DrawableIds(r.renders[k]) : k \in 1..Len(r.renders)}
    ELSE {}

Owners(id) == {f \in Flows : id \in DrawableIds(renders[f])}

\* C7: once map_ids has run over the render description of every flow, the
\* map holds, for each id, exactly the set of flows whose render tree has a
\* drawable with that id at any depth of Composed; shared ids accumulate, and
\* None/Custom renders add no entry.
C7_MapHoldsExactOwnerSets ==
    clicks > 0 =>
        \A id \in Ids \cup DOMAIN translation :
            /\ id \in DOMAIN translation <=> Owners(id) # {}
            /\ id \in DOMAIN translation => translation[id] = Owners(id)

\* A map built from a composition two deep and a composition holding a
\* Custom render, with an id owned by every flow and an id owned by one.
C7_Witness ==
    /\ clicks > 0
    /\ \E f \in Flows :
          /\ renders[f].tag = "Composed"
          /\ \E k \in 1..Len(renders[f].renders) :
                renders[f].renders[k].tag = "Composed"
    /\ \E f \in Flows :
          /\ renders[f].tag = "Composed"
          /\ \E k \in 1..Len(renders[f].renders) :
                renders[f].renders[k].tag = "Custom"
    /\ \E id \in DOMAIN translation : translation[id] = Flows
    /\ \E id \in DOMAIN translation : Cardinality(translation[id]) = 1

Range(seq) == {seq[k] : k \in 1..Len(seq)}

\* The step delivers a picked id to its owners (on either path).
Delivers == last_pick'.pick # None

OwnersNotifiedOnce ==
    LET ids == last_pick'.pick[1][2]
    IN  /\ ids = translation'[last_pick'.pick[1][1]]
        /\ Len(last_pick'.clicked) = Cardinality(ids)
        /\ Range(last_pick'.clicked) = ids

\* C8: when the id read back is in the map, on_click(id) runs exactly once
\* on every flow of the mapped owner set and on no other flow, and a warning
\* is logged when the set has more than one member.
C8_OwnersNotifiedAndWarned ==
    [][Delivers =>
          /\ OwnersNotifiedOnce
          /\ Cardinality(last_pick'.pick[1][2]) > 1
                => "multiple_flows" \in Range(last_pick'.warnings)]_vars

\* The step reads back an id that is not in the map.
ReadsAbsentId ==
    /\ last_pick'.read # None
    /\ last_pick'.read[1] \notin DOMAIN translation'

\* C9: when the id read back is absent from the map, no on_click runs, no
\* pick event is emitted and the mouse selection stays as it was, on the
\* blocking and on the event-delivered path.
C9_AbsentIdIsNoOp ==
    [][ReadsAbsentId =>
          /\ last_pick'.clicked = <<>>
          /\ last_pick'.pick = None
          /\ events' = events
          /\ mouse'.selection = mouse.selection]_vars

\* An absent id was read back on the event-delivered path while an object
\* was selected.
C9_Witness ==
    /\ wasm32
    /\ last_pick.op = "future"
    /\ last_pick.read # None
    /\ last_pick.read[1] \notin DOMAIN translation
    /\ DOMAIN translation # {}
    /\ mouse.selection # None

OutOf(p, f) == p.returned[CHOOSE k \in 1..Len(p.clicked) : p.clicked[k] = f]

\* What the MouseInput handler's delivery does from the state the
\* FlowEvent::Id handler started in, with the same id, owners, iteration order
\* and on_click results.
BlockingDelivery ==
    mouse_input_picked(
        [Handler("user_event") EXCEPT !.events = Tail(@)],
        last_pick'.pick[1][1], last_pick'.pick[1][2], last_pick'.clicked,
        [f \in last_pick'.pick[1][2] |-> OutOf(last_pick', f)],
        one_future(last_pick'.clicked))

\* C10: the event-delivered path (FlowEvent::Id in user_event) has the
\* effects of the blocking path (MouseInput handler) for the same id and
\* owners: selection toggle, on_click on each owner, every returned Out
\* processed by handle_flow_output, and the multi-owner warning.
C10_EventPathMatchesBlockingPath ==
    [][(last_pick'.op = "user_event" /\ Delivers) =>
          /\ mouse' = BlockingDelivery.mouse
          /\ last_pick'.clicked = BlockingDelivery.pick.clicked
          /\ last_pick'.warnings = BlockingDelivery.pick.warnings
          /\ app_state' = BlockingDelivery.app_state
          /\ ctx_configured' = BlockingDelivery.ctx_configured
          /\ events' = BlockingDelivery.events
          /\ spawned' = BlockingDelivery.spawned]_vars

\* ----------------------------------------------------------- merge claims
\* The groups of a clip list: its maximal runs of clips with one name.
GroupStarts(cs) == {k \in 1..Len(cs) : k = 1 \/ cs[k].name # cs[k - 1].name}
NumGroups(cs) == Cardinality(GroupStarts(cs))
GroupIndex(cs, k) == Cardinality({j \in GroupStarts(cs) : j <= k})

\* The samples group g accumulates for one channel, in input order.
RECURSIVE Channel(_, _, _, _)
Channel(cs, g, tag, k) ==
    IF k > Len(cs) THEN <<>>
    ELSE (IF GroupIndex(cs, k) = g /\ cs[k].keyframes.tag = tag
          THEN cs[k].keyframes.values ELSE <<>>) \o Channel(cs, g, tag, k + 1)

Trans(g) == Channel(clips, g, "Translation", 1)
Rots(g) == Channel(clips, g, "Rotation", 1)
Scals(g) == Channel(clips, g, "Scale", 1)
MaxLen(g) == Max(Len(Trans(g)), Max(Len(Rots(g)), Len(Scals(g))))
GroupName(g) == clips[CHOOSE k \in GroupStarts(clips) : GroupIndex(clips, k) = g].name

TrsOnly == \A k \in 1..Len(clips) : clips[k].keyframes.tag # "Other"
MergeRan == merged.status # "none"

\* C11: a one-group clip list whose three channels accumulate n samples each
\* merges into exactly one ModelAnimation with n instances, instance i built
\* from sample i of each channel, the samples of several clips of a channel
\* concatenated in input order.
C11_OneGroupEqualChannels ==
    (/\ MergeRan /\ TrsOnly /\ NumGroups(clips) = 1
     /\ Len(Trans(1)) = Len(Rots(1)) /\ Len(Rots(1)) = Len(Scals(1)))
    => /\ merged.status = "returned"
       /\ Len(merged.animations) = 1
       /\ merged.animations[1].instances =
             [i \in 1..Len(Trans(1)) |->
                 [position |-> Trans(1)[i], rotation |-> Rots(1)[i],
                  scale |-> Scals(1)[i]]]

\* One group of four clips, two of them translation clips, two samples per
\* channel, merged.
C11_Witness ==
    /\ merged.status = "returned"
    /\ NumGroups(clips) = 1
    /\ Len(clips) = 4
    /\ Cardinality({k \in 1..4 : clips[k].keyframes.tag = "Translation"}) = 2
    /\ Trans(1)[1] # Trans(1)[2]
    /\ Len(Trans(1)) = 2 /\ Len(Rots(1)) = 2 /\ Len(Scals(1)) = 2
    /\ Len(merged.animations[1].instances) = 2

\* C12: every ModelAnimation merge emits carries the name of the clips of its
\* own group, with one group and with several.
C12_AnimationNamedAfterOwnGroup ==
    merged.status = "returned" =>
        \A g \in 1..Len(merged.animations) :
            /\ g <= NumGroups(clips)
            /\ merged.animations[g].name = GroupName(g)

\* Channel `channel` of the instances of animation g: as long as the longest
\* channel, the channel's own samples first, then its first sample repeated.
HoldsFirstFrame(g, channel, field) ==
    /\ Len(merged.animations[g].instances) = MaxLen(g)
    /\ \A i \in 1..MaxLen(g) :
          merged.animations[g].instances[i][field] =
              IF i <= Len(channel) THEN channel[i] ELSE channel[1]

Uneven(g) == Len(Trans(g)) # Len(Rots(g)) \/ Len(Rots(g)) # Len(Scals(g))

\* C13: for every group whose channel lengths differ, the emitted
\* ModelAnimation has max(channel lengths) instances, each shorter channel
\* keeping its samples and holding its first sample from there on.
C13_HoldFirstFramePadding ==
    (MergeRan /\ TrsOnly) =>
        \A g \in 1..NumGroups(clips) :
            Uneven(g) =>
                /\ merged.status = "returned"
                /\ g <= Len(merged.animations)
                /\ HoldsFirstFrame(g, Trans(g), "position")
                /\ HoldsFirstFrame(g, Rots(g), "rotation")
                /\ HoldsFirstFrame(g, Scals(g), "scale")

\* C14: merge returns for every non-empty list of Translation/Rotation/Scale
\* clips, whatever the channel lengths, a channel without samples included.
C14_MismatchNeverAborts ==
    (MergeRan /\ TrsOnly /\ clips # <<>>) => merged.status = "returned"

\* A call of op on node n has just been made, whether or not it returned.
Called(ops, n) ==
    /\ steps' = steps + 1
    /\ last_call'.op \in ops
    /\ last_call'.node = n

\* C15: an out-of-range instance index is non-fatal: remove_instance(idx) and
\* clone_instance(idx) with idx at or beyond the node's instance count do not
\* abort and leave the instance arrays of the node and of all its descendants
\* unchanged.
C15_OutOfRangeIndexIsNonFatal ==
    [][\A n \in Nodes :
         (/\ Called({"remove_instance", "clone_instance"}, n)
          /\ last_call'.start >= Len(instances[n])) =>
            /\ ~panicked'
            /\ \A d \in Subtree(n) : instances'[d] = instances[d]]_vars

IdentityPairs(len) == [i \in 1..len |-> Pair(InstanceNew, InstanceNew)]

OwnPairs(xs) == [i \in 1..Len(xs) |-> Pair(xs[i], xs[i])]

\* The call on node n appended `own` to n, as many identity slots to every
\* descendant of n, and nothing else changed in any instance array.
AppendedOnly(n, own) ==
    /\ instances'[n] = instances[n] \o own
    /\ \A d \in Subtree(n) \ {n} :
          instances'[d] = instances[d] \o IdentityPairs(Len(own))
    /\ \A d \in Nodes \ Subtree(n) : instances'[d] = instances[d]

\* C16: add_instance(x) on a node appends one slot whose local and world
\* transform both equal x on that node and one slot whose local and world
\* transform are both the identity on every descendant; add_instances(xs)
\* does the same for each element of xs in order; no existing slot of any
\* node is changed.
C16_AddAppendsOwnAndIdentity ==
    [][\A n \in Nodes :
         Called({"add_instance", "add_instances"}, n) =>
            AppendedOnly(n, OwnPairs(last_call'.pw))]_vars

\* add_instances of two different transforms on an emptied inner node, while
\* the nodes outside its subtree hold a slot.
C16_Witness ==
    /\ last_call.op = "add_instances" /\ ~panicked
    /\ children[last_call.node] # <<>>
    /\ last_call.pw = <<InstA, InstB>>
    /\ instances[last_call.node] = OwnPairs(<<InstA, InstB>>)
    /\ \A d \in Subtree(last_call.node) \ {last_call.node} :
          instances[d] = IdentityPairs(2)
    /\ \E d \in Nodes \ Subtree(last_call.node) : Len(instances[d]) = 1

\* C17: add_instance and clone_instance return the index of the newly created
\* slot, i.e. the instance count of the node before the call, whether the
\* node is a ContainerNode or a ModelNode.
C17_ReturnsIndexOfNewSlot ==
    [][\A n \in Nodes :
         Returned({"add_instance", "clone_instance"}, n) =>
            returned' = Some(Len(instances[n]))]_vars

\* C18: transform_locals(parent, children) returns a vector as long as
\* children whose k-th element is parent * children[k] (an identity parent
\* returns the children unchanged, an empty input an empty output), and that
\* element equals transform_local(parent, children[k]).
C18_TransformLocalsIsParentTimesChild ==
    transformed # None =>
       LET result == transformed[1]
       IN  /\ Len(result) = Len(locals)
           /\ \A k \in 1..Len(locals) :
                 /\ result[k] = MulOwned(parent, locals[k])
                 /\ single[k] # None => result[k] = single[k][1]
           /\ parent = InstanceNew => result = locals

\* Both functions ran on three children, the unit tests' parent at (10,0,0)
\* taking the child at (1,0,0) to (11,0,0), next to a turned child.
C18_Witness ==
    /\ transformed # None /\ Len(locals) = 3
    /\ \A k \in 1..3 : single[k] # None
    /\ parent = At(10, 0, 0)
    /\ locals[1] = At(1, 0, 0) /\ transformed[1][1] = At(11, 0, 0)
    /\ locals[2] = InstA /\ transformed[1][2] # InstA

\* C19: identity law of `*`: Instance::new() * I = I and I * Instance::new()
\* = I for every Instance I, by value and by reference, and the two
\* implementations agree on every pair of operands.
C19_IdentityLaw ==
    /\ (by_value # None /\ by_ref # None) => by_value = by_ref
    /\ \A product \in {by_value, by_ref} :
          product # None =>
             /\ lhs = InstanceNew => product[1] = rhs
             /\ rhs = InstanceNew => product[1] = lhs

\* The identity was multiplied from the left onto a turned, mirrored and
\* displaced instance, by value and by reference.
C19_Witness ==
    /\ by_value # None /\ by_ref # None
    /\ lhs = InstanceNew
    /\ rhs.rotation = 3 /\ rhs.scale = Vec3(-1, 1, 3) /\ rhs.position = Vec3(1, 2, 0)
    /\ by_value[1] = rhs

OnInitCalls(f) == {i \in 1..Len(hooks) : hooks[i] = <<f, "on_init">>}

\* C20: on_init is invoked exactly once on every flow, and no other hook of
\* any flow is invoked before on_init, on both initialisation paths (the
\* blocking one inside resumed and the Initialized event); window, device and
\* user events that arrive before initialisation completes reach no flow.
\* As a formula: no flow ever has two on_init calls, every flow has one once
\* App.state is set, every other call in the log comes after the on_init of
\* every flow; a step that starts and ends with App.state empty calls no
\* hook, and the step that sets App.state calls on_init on each flow and
\* nothing else.
C20_OnInitOnceAndFirst ==
    /\ [](/\ \A f \in Flows : Cardinality(OnInitCalls(f)) <= 1
          /\ state_is_some => \A f \in Flows : Cardinality(OnInitCalls(f)) = 1
          /\ \A i \in 1..Len(hooks) :
                hooks[i][2] # "on_init" =>
                   \A f \in Flows : \E j \in 1..(i - 1) : hooks[j] = <<f, "on_init">>)
    /\ [][/\ (self_state = None /\ self_state' = None) => hooks' = hooks
          /\ (self_state = None /\ self_state' # None) =>
                hooks' = hooks \o [k \in 1..NumFlows |-> <<k - 1, "on_init">>]]_vars

\* The asynchronous path: events were dropped before the Initialized event
\* set App.state, and the flows were called afterwards.
C20_Witness ==
    /\ wasm32 /\ state_is_some /\ dropped > 0
    /\ \A f \in Flows : Cardinality(OnInitCalls(f)) = 1
    /\ Len(hooks) > NumFlows

\* The blocking path: resumed initialised the flows, and a hook ran afterwards.
BlockingInitFollowedByHook ==
    /\ ~wasm32 /\ state_is_some /\ dropped > 0
    /\ Len(hooks) > NumFlows

\* The hook calls of the handler that takes this step, and those of one hook.
Made == SubSeq(hooks', Len(hooks) + 1, Len(hooks'))

Of(calls, hook) == SelectSeq(calls, LAMBDA c : c[2] = hook)

Tail_(calls, n) == SubSeq(calls, Len(calls) - n + 1, Len(calls))

\* A RedrawRequested handler that found the application state ran.
RedrawStep ==
    /\ handled' = handled + 1
    /\ last_event'.event = "RedrawRequested"

C25_TickIffDueThenReset ==
    [][/\ (RedrawStep /\ last_event'.render = "Ok") =>
             LET acc == time_since_tick + last_event'.dt
             IN  IF acc >= TickDuration
                 THEN /\ Of(Made, "on_tick") = Invoked(graphics_flows, "on_tick")
                      /\ time_since_tick' = 0
                 ELSE /\ Of(Made, "on_tick") = <<>>
                      /\ time_since_tick' = acc
       /\ time_since_tick' < time_since_tick =>
             /\ RedrawStep
             /\ Of(Made, "on_tick") = Invoked(graphics_flows, "on_tick")
       /\ Of(Made, "on_tick") # <<>> => RedrawStep /\ last_event'.render = "Ok"]_vars

\* A frame that ticked after an earlier frame had only accumulated time.
C25_Witness ==
    /\ last_event.event = "RedrawRequested" /\ last_event.render = "Ok"
    /\ last_event.dt < TickDuration
    /\ time_since_tick = 0
    /\ Of(hooks, "on_tick") = Invoked(AllFlows, "on_tick")
    /\ Len(Of(hooks, "on_update")) = 2 * NumFlows

\* What the hook calls of this step returned and were given.
MadeLog == SubSeq(call_log', Len(call_log) + 1, Len(call_log'))

\* A user_event handler took a FlowEvent::Custom off the queue.
CustomStep ==
    /\ handled' = handled + 1
    /\ last_event'.op = "user_event" /\ last_event'.event = "Custom"

Warned(p, msg) == \E i \in 1..Len(p.warnings) : p.warnings[i] = msg

\* C24: a Custom event is offered to the flows in index order, starting with
\* the event itself; a flow that returns Some(e) hands e to the next flow, no
\* flow is invoked after one that returned None, the warning is logged
\* exactly when every flow returned Some, and the event is not put back on
\* the queue.
C24_CustomEventChain ==
    [][CustomStep =>
          LET n == Len(Made)
              flows == graphics_flows
          IN  /\ n >= 1 /\ n <= Len(flows)
              /\ Made = Invoked(SubSeq(flows, 1, n), "on_custom_events")
              /\ MadeLog[1].event = Some(Head(events).payload)
              /\ \A k \in 1..(n - 1) :
                     /\ MadeLog[k].out # "None"
                     /\ MadeLog[k + 1].event =
                            on_custom_events(flows[k], MadeLog[k].event[1],
                                             MadeLog[k].out)
              /\ n < Len(flows) => MadeLog[n].out = "None"
              /\ Warned(last_pick', "custom_not_consumed") <=>
                     MadeLog[n].out # "None"
              /\ events' = Tail(events)]_vars

\* The first flow handed another event on and the second flow consumed it.
C24_Witness ==
    /\ last_event.event = "Custom"
    /\ Len(hooks) >= NumFlows
    /\ Tail_(hooks, NumFlows) = Invoked(AllFlows, "on_custom_events")
    /\ call_log[Len(call_log) - 1].out = "Other"
    /\ call_log[Len(call_log)].out = "None"
    /\ call_log[Len(call_log)].event # call_log[Len(call_log) - 1].event

\* The closures or events of the futures that hook call number c returned.
FuturesOf(c) == {resolved_of(c)[p] : p \in 1..FuturesPerOut}

Returned_(out) ==
    UNION {FuturesOf(c) : c \in {d \in 1..Len(call_log) : call_log[d].out = out}}

\* Still held by a spawned future or by an event on the queue.
InFlight(x) ==
    \/ \E i \in 1..Len(spawned) :
          /\ spawned[i].tag \in {"FutFn", "FutEvent"}
          /\ \E p \in 1..Len(spawned[i].resolved) : spawned[i].resolved[p] = x
    \/ \E i \in 1..Len(events) :
          events[i].tag \in {"Mut", "Custom"} /\ events[i].payload = x

Applications(x) == {i \in 1..Len(app_state) : app_state[i] = x}

\* The closures of the Out::FutFn results, in the order of the calls and of
\* each list.
RECURSIVE closures_in_order(_, _)
closures_in_order(log, c) ==
    IF c > Len(log) THEN <<>>
    ELSE (IF log[c].out = "FutFn" THEN resolved_of(c) ELSE <<>>) \o
         closures_in_order(log, c + 1)

MutStep ==
    /\ handled' = handled + 1
    /\ last_event'.op = "user_event" /\ last_event'.event = "Mut"

\* C22: a closure resolved from an Out::FutFn that a hook returned is applied
\* to the State at most once, and exactly once as soon as no future and no
\* queued event holds it; on the blocking target the closures have all been
\* applied, in call and list order, when the handler returns; on the
\* event-delivered target handling a Mut event applies exactly its closure.
C22_ClosuresAppliedExactlyOnce ==
    /\ [](\A x \in Returned_("FutFn") :
             /\ Cardinality(Applications(x)) <= 1
             /\ ~InFlight(x) => Cardinality(Applications(x)) = 1)
    /\ [](~wasm32 => app_state = closures_in_order(call_log, 1))
    /\ [][MutStep => app_state' = Append(app_state, Head(events).payload)]_vars

\* The handlers that gave a custom event to the first flow.
Deliveries(x) ==
    {i \in 1..Len(call_log) :
        /\ hooks[i] = <<AllFlows[1], "on_custom_events">>
        /\ call_log[i].event = Some(x)}

\* C23: an event resolved from an Out::FutEvent that a hook returned is given
\* to on_custom_events at most once, exactly once as soon as no future and no
\* queued event holds it, and only by a handler that runs after the handler
\* whose hook returned it.
C23_EventsDeliveredExactlyOnce ==
    [](\A c \in 1..Len(call_log) :
          call_log[c].out = "FutEvent" =>
             \A x \in FuturesOf(c) :
                /\ Cardinality(Deliveries(x)) <= 1
                /\ ~InFlight(x) => Cardinality(Deliveries(x)) = 1
                /\ \A i \in Deliveries(x) :
                       call_log[i].handler > call_log[c].handler)

\* A clone_instance or remove_instance call that returned took this step.
CloneStep ==
    /\ steps' = steps + 1 /\ returned' # None
    /\ last_call'.op = "clone_instance"

RemoveStep ==
    /\ steps' = steps + 1 /\ returned' # None
    /\ last_call'.op = "remove_instance"

\* The nodes in the order in which the call of this step wrote their
\* instance arrays.
CloneOrder == clone_instance(TreeState, last_call'.node, last_call'.start).order

RemoveOrder == remove_instance(TreeState, last_call'.node, last_call'.start).order

Position(order, n) == CHOOSE k \in 1..Len(order) : order[k] = n

Covers(order, n) ==
    /\ Len(order) = Cardinality(Subtree(n))
    /\ \A m \in Subtree(n) : \E k \in 1..Len(order) : order[k] = m

DescendantsFirst(order, n) ==
    /\ Covers(order, n)
    /\ \A m \in Subtree(n) : \A d \in Subtree(m) \ {m} :
          Position(order, d) < Position(order, m)

SelfFirst(order, n) ==
    /\ Covers(order, n)
    /\ \A m \in Subtree(n) : \A d \in Subtree(m) \ {m} :
          Position(order, m) < Position(order, d)

\* C26: remove_instance(idx) and clone_instance(idx) both write the instance
\* array of every descendant before they write the node's own.
C26_DescendantsBeforeSelf ==
    [][/\ RemoveStep => DescendantsFirst(RemoveOrder, last_call'.node)
       /\ CloneStep => DescendantsFirst(CloneOrder, last_call'.node)]_vars

\* C26, as the code has it: remove_instance(idx) writes the instance array
\* of every descendant before the node's own; clone_instance(idx) writes the
\* node's own array first and those of its descendants afterwards.
C26_RemoveBottomUpCloneTopDown ==
    [][/\ RemoveStep => DescendantsFirst(RemoveOrder, last_call'.node)
       /\ CloneStep => SelfFirst(CloneOrder, last_call'.node)]_vars

\* clone_instance returned on a node that has grandchildren.
C26_Witness ==
    /\ last_call.op = "clone_instance" /\ returned # None
    /\ \E c \in Subtree(last_call.node) \ {last_call.node} :
          Subtree(c) # {c}

\* The index of the call is in bounds at every node of the subtree.
ValidIndex ==
    \A m \in Subtree(last_call'.node) : last_call'.start < Len(instances[m])

\* seq without its slot idx (0-based), the other slots in their old order.
Without(seq, idx, after) ==
    /\ Len(after) = Len(seq) - 1
    /\ \A j \in 1..Len(after) :
          after[j] = IF j <= idx THEN seq[j] ELSE seq[j + 1]

\* C27: clone_instance(i) with a valid i appends at every node of the
\* subtree one slot equal to that node's slot i and changes no other slot;
\* remove_instance(i) with a valid i deletes slot i at every node of the
\* subtree, keeps the order of the other slots and returns the pair removed
\* from the node it was called on; nodes outside the subtree are untouched.
C27_CloneAppendsRemoveDeletes ==
    [][(steps' = steps + 1 /\ last_call'.op \in {"clone_instance", "remove_instance"}) =>
          LET n == last_call'.node
              i == last_call'.start
          IN  /\ ValidIndex <=> returned' # None
              /\ CloneStep =>
                     \A m \in Nodes :
                        instances'[m] =
                           IF m \in Subtree(n)
                           THEN Append(instances[m], instances[m][i + 1])
                           ELSE instances[m]
              /\ RemoveStep =>
                     /\ \A m \in Subtree(n) : Without(instances[m], i, instances'[m])
                     /\ \A m \in Nodes \ Subtree(n) : instances'[m] = instances[m]
                     /\ returned' = Some(instances[n][i + 1])]_vars

\* remove_instance(0) returned on a node with children whose slots 0 and 1
\* differed: the old slot 1 is now slot 0.
C27_Witness ==
    /\ last_call.op = "remove_instance" /\ last_call.start = 0
    /\ returned # None
    /\ children[last_call.node] # <<>>
    /\ Len(instances[last_call.node]) >= 1
    /\ instances[last_call.node][1] # returned[1]

\* Animation g holds the samples of group g, each channel in input order.
BuiltFrom(g) ==
    LET insts == merged.animations[g].instances
    IN  /\ Len(insts) = MaxLen(g)
        /\ \A i \in 1..Len(Trans(g)) : insts[i].position = Trans(g)[i]
        /\ \A i \in 1..Len(Rots(g)) : insts[i].rotation = Rots(g)[i]
        /\ \A i \in 1..Len(Scals(g)) : insts[i].scale = Scals(g)[i]

\* C28: merge emits exactly one ModelAnimation per maximal run of
\* consecutive clips with one name, the g-th animation built from the g-th
\* run; runs with the same name that are not adjacent are kept apart.
C28_OneAnimationPerRun ==
    (MergeRan /\ TrsOnly) =>
        /\ merged.status = "returned"
        /\ Len(merged.animations) = NumGroups(clips)
        /\ \A g \in 1..NumGroups(clips) : BuiltFrom(g)

GroupClips(g) == {k \in 1..Len(clips) : GroupIndex(clips, k) = g}

\* The first clip of group g whose timestamp vector is a longest one.
LongestIn(g) ==
    CHOOSE k \in GroupClips(g) :
        \A j \in GroupClips(g) :
            \/ Len(clips[j].timestamps) < Len(clips[k].timestamps)
            \/ Len(clips[j].timestamps) = Len(clips[k].timestamps) /\ k <= j

\* C29: the timestamps of every emitted ModelAnimation are the longest
\* timestamp vector among the clips of its own group, the first of them on a
\* tie, and its instances consist of the samples of its own group alone.
C29_TimestampsOfOwnGroup ==
    merged.status = "returned" =>
        \A g \in 1..Len(merged.animations) :
            /\ g <= NumGroups(clips)
            /\ merged.animations[g].timestamps = clips[LongestIn(g)].timestamps
            /\ HoldsFirstFrame(g, Trans(g), "position")
            /\ HoldsFirstFrame(g, Rots(g), "rotation")
            /\ HoldsFirstFrame(g, Scals(g), "scale")

\* Two groups, the first with a longer timestamp vector than any of the
\* second, the second with several clips tied for its longest.
C29_Witness ==
    /\ merged.status = "returned"
    /\ NumGroups(clips) = 2
    /\ Len(merged.animations) = 2
    /\ Len(merged.animations[1].timestamps) > Len(merged.animations[2].timestamps)
    /\ \E j \in GroupClips(2) :
          /\ j # LongestIn(2)
          /\ Len(clips[j].timestamps) = Len(clips[LongestIn(2)].timestamps)
          /\ clips[j].timestamps # clips[LongestIn(2)].timestamps

WriteStep(n) ==
    /\ steps' = steps + 1
    /\ last_call'.op = "write_to_buffers" /\ last_call'.node = n

\* Cw for a first instance whose world matrix has a negative determinant,
\* Ccw for any other first instance, the old value without an instance.
FaceOfFirst(n) ==
    IF instances[n] = <<>> THEN front_face[n]
    ELSE IF determinant(to_matrix(instances[n][1].world)) < 0 THEN "Cw"
    ELSE "Ccw"

\* C30: write_to_buffers leaves on a ModelNode with an instance the front
\* face given by the sign of the determinant of the first instance's world
\* matrix, whatever the other instances and the front face before (one set by
\* render_inverted included), and on a ModelNode without an instance the
\* front face it had.
C30_FrontFaceFromFirstInstance ==
    [][\A n \in Nodes :
         WriteStep(n) =>
            /\ kind[n] = "Model" => front_face'[n] = FaceOfFirst(n)
            /\ ~panicked' =>
                  \A m \in Subtree(n) :
                     kind[m] = "Model" => front_face'[m] = FaceOfFirst(m)
            /\ \A m \in Nodes :
                  (m \notin Subtree(n) \/ kind[m] # "Model") =>
                     front_face'[m] = front_face[m]]_vars

\* write_to_buffers ran on a ModelNode whose first instance is not mirrored
\* and whose second instance is: the front face is Ccw.
C30_Witness ==
    /\ last_call.op = "write_to_buffers" /\ kind[last_call.node] = "Model"
    /\ Len(instances[last_call.node]) >= 2
    /\ determinant(to_matrix(instances[last_call.node][1].world)) > 0
    /\ determinant(to_matrix(instances[last_call.node][2].world)) < 0
    /\ front_face[last_call.node] = "Ccw"

\* A call of op with an index at or beyond the node's instance count.
OutOfRange(op) ==
    /\ steps' = steps + 1
    /\ last_call'.op = op
    /\ last_call'.start >= Len(instances[last_call'.node])

\* C31: set_local_transform with an index at or beyond the node's instance
\* count does not abort and changes no local transform, no world transform
\* and no instance count of any node; get_local_transform and
\* get_world_transform return None for such an index.
C31_OutOfRangeTransformAccess ==
    [][/\ OutOfRange("set_local_transform") =>
             ~panicked' /\ instances' = instances
       /\ OutOfRange("get_local_transform") => returned' = Some(None)
       /\ OutOfRange("get_world_transform") => returned' = Some(None)]_vars

\* set_local_transform was called past the end of a node that has instances
\* and children.
C31_Witness ==
    /\ last_call.op = "set_local_transform"
    /\ last_call.start >= Len(instances[last_call.node])
    /\ instances[last_call.node] # <<>>
    /\ children[last_call.node] # <<>>
    /\ ~panicked

\* C32: merge aborts on an empty clip list, and every clip list that
\* to_scene_node hands to merge while load_model_gltf runs is non-empty.
C32_MergeOnlyOnNonEmptyLists ==
    /\ merge(<<>>).status = "panicked"
    /\ \A k \in 1..Len(merge_log) : merge_log[k] # <<>>

\* A tree was returned for which merge ran on the clips of a node and
\* returned.
C32_Witness ==
    /\ loading = "returned"
    /\ Len(merge_log) = 1
    /\ Len(merge_log[1]) = MaxChannels
    /\ merge(merge_log[1]).status = "returned"

\* C33: for every animation merge produced and every elapsed time, the
\* keyframe index animate_graph selects is a valid index into the
\* animation's instances.
C33_KeyframeIndexValid ==
    animated.status # "none" /\ animated.anim_idx < Len(merged.animations) =>
       /\ animated.status = "set"
       /\ animated.index < Len(merged.animations[animated.anim_idx + 1].instances)

\* C34: add_instances and set_instances return the index of the last
\* instance of the node, its instance count minus one, without unsigned
\* underflow and without aborting, for every input, an empty vector on a node
\* that has or is left with no instance included.
C34_LastIndexWithoutUnderflow ==
    [][\A n \in Nodes :
         Called({"add_instances", "set_instances"}, n) =>
            /\ ~panicked'
            /\ ~len_minus_one_overflows(Len(instances'[n]))
            /\ returned' = Some(Len(instances'[n]) - 1)]_vars

\* The instance buffer of ModelNode n holds one record per instance.
BufferMatches(n) == instance_buffer[n].size = Len(instances[n])

\* C35: in every state of a ModelNode reachable through from_model,
\* to_clickable, the instance-count mutations and write_to_buffers, either
\* buffer_size_needs_change is set or the instance buffer holds exactly
\* instances.len() records; hence an in-place write never writes another
\* number of records than the buffer holds, and a descriptor that get_render
\* emits while the flag is clear has a count equal to the buffer's records.
C35_BufferHoldsInstanceCount ==
    /\ [](~panicked =>
            \A n \in Nodes :
               kind[n] = "Model" /\ ~buffer_size_needs_change[n] =>
                  /\ BufferMatches(n)
                  /\ get_render(n).amount = get_render(n).instance.size)
    /\ [][\A n \in Nodes :
            (/\ steps' = steps + 1
             /\ last_call'.op = "write_to_buffers"
             /\ gpu_call'[n] = "write_buffer") => BufferMatches(n)]_vars

\* A handler read the pick texture at a pixel that no drawable covers.
ReadsBackground ==
    /\ last_pick'.op \in {"mouse_input", "future"}
    /\ last_pick'.read # None
    /\ last_pick'.covered = None

\* C36: a click on a pixel that no drawable covers never invokes on_click on
\* any flow, never sends a pick to the flows and never changes the mouse
\* selection, whatever ids the drawables carry, id 0 included.
C36_BackgroundClickSelectsNothing ==
    [][ReadsBackground =>
          /\ last_pick'.clicked = <<>>
          /\ last_pick'.pick = None
          /\ mouse'.selection = mouse.selection
          /\ \A k \in 1..Len(events') :
                events'[k].tag = "Id" => \E j \in 1..Len(events) : events[j] = events'[k]
       ]_vars

\* C37: transform_local and transform_locals of dyn SceneNode leave the node
\* as they found it: after either call returns, the child list, every
\* instance count and every local and world transform of the node and its
\* descendants are what they were before the call.
C37_QueriesLeaveNodeUnchanged ==
    [][\A n \in Nodes :
         Returned({"transform_local", "transform_locals"}, n) =>
            /\ children' = children
            /\ instances' = instances]_vars

\* The tree load_model_gltf returned.
Loaded == loading \in {"returned", "updated"}

\* Instance i of node n has a counterpart in every node above it, and its
\* world transform is the product of the local transforms down to it.
Recomputed(n, i) ==
    /\ \A a \in PathFrom(Root, n) : i <= Len(instances[a])
    /\ instances[n][i].world = PathWorld(n, i)

\* C38: every tree load_model_gltf returns is index-aligned, the root
\* included, with one scene root node and with several, so that
\* update_world_transform_all on the returned root recomputes the world
\* transform of every node.
C38_LoadedTreeIsAligned ==
    /\ Loaded =>
          \A n \in Subtree(Root) : Len(instances[n]) = Len(instances[Root])
    /\ loading = "updated" =>
          \A n \in Subtree(Root) :
             \A i \in 1..Len(instances[n]) : Recomputed(n, i)

\* merge was handed the clips of a node while load_model_gltf ran.
MergeInvoked == merge_log' # merge_log

\* C39: merge returns without aborting for every clip list load_model_gltf
\* builds, clips whose keyframes are Keyframes::Other (morph target weights,
\* channels without outputs) included.
C39_MergeReturnsOnOtherKeyframes ==
    [][MergeInvoked =>
          \A k \in (Len(merge_log) + 1)..Len(merge_log') :
             (\E c \in 1..Len(merge_log'[k]) :
                 merge_log'[k][c].keyframes.tag = "Other")
                => merge(merge_log'[k]).status = "returned" /\ ~panicked']_vars

\* Index i (from 1) lies in the range start..end of the call.
InRange(i) == i > last_call'.start /\ i <= last_call'.end

\* C40: update_world_transforms and update_world_transform_all change world
\* transforms only: every local transform, instance count, child list and
\* every world transform at an index outside the range stays as it was (and
\* so do flags and buffers); running update_world_transform_all again on the
\* state it left changes nothing.
C40_OnlyWorldTransformsInRange ==
    [][\A n \in Nodes :
         PropCall(n) =>
            /\ UNCHANGED <<kind, children, buffer_size_needs_change, front_face,
                           instance_buffer, panicked>>
            /\ \A d \in Nodes :
                  /\ Len(instances'[d]) = Len(instances[d])
                  /\ \A i \in 1..Len(instances[d]) :
                        /\ instances'[d][i].local = instances[d][i].local
                        /\ ~InRange(i) =>
                              instances'[d][i].world = instances[d][i].world
            /\ last_call'.op = "update_world_transform_all" =>
                  update_world_transform_all(instances', n) = instances']_vars

\* update_world_transforms ran over the range 1..2 of the root of a tree
\* whose world transforms were stale: index 1 is recomputed in the root and
\* in its children, index 0 still holds the stale world transform.
C40_Witness ==
    /\ last_call.op = "update_world_transforms" /\ last_call.node = Root
    /\ last_call.start = 1 /\ last_call.end = 2 /\ Len(last_call.pw) = 1
    /\ Len(instances[Root]) = 2
    /\ instances[Root][1].world = InstanceNew
    /\ instances[Root][1].local # InstanceNew
    /\ instances[Root][2].world = Mul(last_call.pw[1], instances[Root][2].local)
    /\ instances[Root][2].world # InstanceNew
    /\ \A k \in 1..Len(children[Root]) :
          /\ Len(instances[children[Root][k]]) = 2
          /\ instances[children[Root][k]][2].world =
                Mul(instances[Root][2].world, instances[children[Root][k]][2].local)

====
